---- MODULE Spec2Model ----
(***************************************************************************)
(* The dump side of db_file.c: dump_database() with its three reasons      *)
(* (shutdown, checkpoint, panic), db_flush(), db_shutdown(), in the forked *)
(* build (UNFORKED_CHECKPOINTS not defined).  The server process and its   *)
(* forked checkpointer children run interleaved over one file system.      *)
(*                                                                         *)
(* The file system maps names to files.  remove() unlinks a name; a FILE    *)
(* whose name was unlinked under it keeps an inode nobody can reach, so    *)
(* what is written to it is seen by no one and a later rename() of that    *)
(* name fails.  Write errors surface where the code looks for them:        *)
(* fopen(), the dbio failure inside write_db_file(), and rename(); the     *)
(* results of fflush, fsync, fclose and remove are ignored by the code and *)
(* modelled as succeeding.                                                 *)
(***************************************************************************)
EXTENDS Integers, Sequences, FiniteSets, TLC

\* Bounds of the model.
MaxGen == 2

VARIABLES
    store,            \* the server's live object store: slot i+1 holds object #i
    dump_generation,  \* static int dump_generation of the server process
    command_history,  \* TRUE when the server's command history is non-empty
    disk,             \* file name -> the file under that name, or NoFile
    proc,             \* per process: position in dump_database and its locals
    ret               \* what the server's last db_flush / dump_database returned

\* The load side: read_db_file() with the validators and the migrator.
VARIABLES
    dbio_input_version,  \* DB_Version dbio_input_version
    objects,             \* static Object4 **objects: slot i+1 holds legacy object #i
    load_pc,             \* position in read_db_file
    broken,              \* int broken of the validator that ran last
    fixed_nexts,         \* int fixed_nexts of v4_validate_hierarchies
    dbio,                \* what has been written to, or is there to read from, the dbio stream
    nprogs               \* int nprogs of read_db_file: the verb programs the header announces

\* The exec facility of exec.c.
VARIABLES
    exec_waiters,     \* the hash table exec_waiters: pid -> tasks_waiting_on_exec
    fds,              \* the server's pipe descriptors: descriptor -> open or closed, closes
    tasks,            \* the VM tasks that called exec(): task -> state and resume value
    children,         \* the processes forked by bf_exec: pid -> state
    exec_ret          \* what the last bf_exec / exec_completed / enumerator call returned

dumpVars == <<dump_generation, command_history, disk, proc, ret>>
loadVars == <<dbio_input_version, objects, load_pc, broken, fixed_nexts, dbio, nprogs>>
execVars == <<exec_waiters, fds, tasks, children, exec_ret>>

vars == <<store, dump_generation, command_history, disk, proc, ret, loadVars, execVars>>

----------------------------------------------------------------------------
(* Names, processes *)

dump_db_name == "D"

DUMP_SHUTDOWN == "DUMPING"
DUMP_CHECKPOINT == "CHECKPOINTING"
DUMP_PANIC == "PANIC-DUMPING"

Server == 0
Children == 1 .. MaxGen        \* a checkpointer child is named by its generation
Procs == 0 .. MaxGen

\* stream_printf(s, "%s.#%d#", dump_db_name, dump_generation)
TempName(g) == dump_db_name \o ".#" \o ToString(g) \o "#"

\* stream_printf(s, "%s.PANIC", dump_db_name)
PanicName == dump_db_name \o ".PANIC"

FileNames == {dump_db_name, PanicName} \cup {TempName(g) : g \in 0 .. MaxGen}

NoFile == [exists |-> FALSE, data |-> <<>>, synced |-> FALSE]
EmptyFile == [exists |-> TRUE, data |-> <<>>, synced |-> FALSE]

----------------------------------------------------------------------------
(* write_db_file: what a dump consists of *)

\* dbio_printf(header...) and "%d\n%d\n%d\n%d\n" with max_oid + 1
Header(mem) == <<"hdr", Len(mem), "">>

\* ng_write_object(oid): "#oid" with its body, or "#oid recycled"
ObjectBlock(mem, oid) == <<"obj", oid, mem[oid + 1]>>

\* programs, write_task_queue(), write_active_connections()
Trailer == <<"end", 0, "">>

\* The complete dump of a store.
Serialize(mem) ==
    <<Header(mem)>> \o [i \in 1 .. Len(mem) |-> ObjectBlock(mem, i - 1)] \o <<Trailer>>

----------------------------------------------------------------------------
(* The decisions dump_database takes on its reason *)

\* A slip: the generation bumped whatever the reason.
BumpAlways(reason, g) == g + 1

\* if (reason == DUMP_PANIC) ... else { dump_generation++; ... }
BumpGeneration(reason, g) == IF reason = DUMP_PANIC THEN g ELSE g + 1

\* temp_name = reset_stream(s)
TempNameFor(reason, g) == IF reason = DUMP_PANIC THEN PanicName ELSE TempName(g)

\* A slip: the fork left out, the checkpoint dumped by the server itself.
AfterNamingUnforked(reason) == "fopen"

\* #ifndef UNFORKED_CHECKPOINTS: if (reason == DUMP_CHECKPOINT) switch (fork_server(...))
AfterNaming(reason) == IF reason = DUMP_CHECKPOINT THEN "fork_server" ELSE "fopen"

\* A slip: every failed dump abandoned, none retried.
AfterDumpFailedAbandon(reason) == "finish"

\* after a failed write_db_file: abandon (checkpoint) or sleep and goto retryDumping
AfterDumpFailed(reason) == IF reason = DUMP_CHECKPOINT THEN "finish" ELSE "timer_sleep"

\* success after a failed write_db_file: only the checkpoint branch sets it to 0
SuccessAfterDumpFailed(reason, success) == IF reason = DUMP_CHECKPOINT THEN 0 ELSE success

\* fflush(f): stdio hands its buffer to the kernel.
FflushOp(h) == IF h.f = "open" THEN [h EXCEPT !.f = "flushed"] ELSE h

\* fsync(fileno(f)): what the kernel has been handed becomes durable.
FsyncOp(h) == IF h.f \in {"open", "flushed"} THEN [h EXCEPT !.synced = (h.f = "flushed")] ELSE h

\* fclose(f)
FcloseOp(h) == [h EXCEPT !.f = "closed"]

\* A slip: fsync(fileno(f)) issued before fflush(f).
SyncBeforeFlush(h) == FcloseOp(FflushOp(FsyncOp(h)))

\* fflush(f); fsync(fileno(f)); fclose(f);
FlushSyncClose(h) == FcloseOp(FsyncOp(FflushOp(h)))

\* A slip: the test of the reason left out before remove and rename.
AfterFcloseRename(reason) == "remove_d"

\* if (reason != DUMP_PANIC) { remove(dump_db_name); rename(...) }
AfterFclose(reason) == IF reason # DUMP_PANIC THEN "remove_d" ELSE "finish"

\* success = 1 ... if (!write_db_file(...)) ... else: a panic dump is over with
\* the success it was given at the top
SuccessAfterFclose(success) == success

\* A slip: exit(success).
ExitStatusAsSuccess(success) == success

\* exit(!success)
ExitStatus(success) == IF success = 0 THEN 1 ELSE 0

----------------------------------------------------------------------------
(* Process records *)

NoProc(pc) ==
    [pc |-> pc, reason |-> "", temp_name |-> "", success |-> 1, f |-> "null",
     synced |-> FALSE, mem |-> <<>>, status |-> 0, d_at_fork |-> NoFile]

\* A slip: the child reading the server's store (a thread, not a fork).
MemoryOfServer(p) == store

\* The store a process serializes: the server its live store, a forked child
\* the copy of the address space it got at fork.
Memory(p) == IF p = Server THEN store ELSE proc[p].mem

\* remove(name)
Remove(d, name) == [d EXCEPT ![name] = NoFile]

Running(p) == proc[p].pc \notin {"idle", "down", "unborn", "exited", "killed"}

\* free_stream(s); if (reason == DUMP_CHECKPOINT) exit(!success); return success;
\* The child goes away with its exit status.  In the server only a shutdown or
\* a panic dump gets here, and the server process ends after either.
Finish(p, success) ==
    IF p = Server THEN [NoProc("down") EXCEPT !.reason = proc[p].reason]
    ELSE [NoProc("exited") EXCEPT !.status = ExitStatus(success),
                                  !.d_at_fork = proc[p].d_at_fork]

\* What db_flush / db_shutdown saw dump_database return.
Returned(p, success) == IF p = Server THEN success ELSE ret

\* The D a previous run of the server left behind (it dumped an empty store).
OldFile == [exists |-> TRUE, data |-> Serialize(<<>>), synced |-> TRUE]

----------------------------------------------------------------------------
\* The load side once db_load() is over: the legacy table is released, the
\* dbio stream is closed.
LoadIdle ==
    /\ dbio_input_version = 0
    /\ objects = <<>>
    /\ load_pc = "loaded"
    /\ broken = 0
    /\ fixed_nexts = 0
    /\ dbio = <<>>
    /\ nprogs = 0

\* static tasks_waiting_on_exec *exec_waiters = NULL: no exec() has been called.
ExecIdle ==
    /\ exec_waiters = <<>>
    /\ fds = <<>>
    /\ tasks = <<>>
    /\ children = <<>>
    /\ exec_ret = <<>>

Init ==
    /\ store = <<"live">>
    /\ dump_generation = 0
    /\ command_history = FALSE
    /\ \E old \in {NoFile, OldFile} :
         disk = [n \in FileNames |-> IF n = dump_db_name THEN old ELSE NoFile]
    /\ proc = [p \in Procs |-> IF p = Server THEN NoProc("idle") ELSE NoProc("unborn")]
    /\ ret = -1
    /\ LoadIdle
    /\ ExecIdle

----------------------------------------------------------------------------
(* The server between dumps *)

\* The VM recycles a live object.
Recycle ==
    /\ proc[Server].pc = "idle"
    /\ \E i \in 1 .. Len(store) :
         /\ store[i] = "live"
         /\ store' = [store EXCEPT ![i] = "recycled"]
    /\ command_history' = TRUE
    /\ UNCHANGED <<dump_generation, disk, proc, ret>>
    /\ UNCHANGED <<loadVars, execVars>>

\* db_flush(FLUSH_IF_FULL), db_flush(FLUSH_ONE_SECOND)
FlushNoop ==
    /\ proc[Server].pc = "idle"
    /\ ret' = 1
    /\ UNCHANGED <<store, dump_generation, command_history, disk, proc>>
    /\ UNCHANGED <<loadVars, execVars>>

\* db_flush(FLUSH_ALL_NOW), db_flush(FLUSH_PANIC), db_shutdown(): enter dump_database
EnterDump(reason) ==
    /\ proc[Server].pc = "idle"
    /\ reason # DUMP_PANIC => dump_generation < MaxGen
    /\ proc' = [proc EXCEPT ![Server] = [NoProc("retryDumping") EXCEPT !.reason = reason]]
    /\ UNCHANGED <<store, dump_generation, command_history, disk, ret>>
    /\ UNCHANGED <<loadVars, execVars>>

----------------------------------------------------------------------------
(* dump_database, step by step *)

\* retryDumping: remove the previous temporary, name the new one.  Only the
\* server is ever here: a child starts after the fork.
RetryDumping ==
    /\ proc[Server].pc = "retryDumping"
    /\ disk' = Remove(disk, TempName(dump_generation))
    /\ dump_generation' = BumpGeneration(proc[Server].reason, dump_generation)
    /\ proc' = [proc EXCEPT
                  ![Server].temp_name = TempNameFor(proc[Server].reason, dump_generation'),
                  ![Server].pc = AfterNaming(proc[Server].reason)]
    /\ UNCHANGED <<store, command_history, ret>>
    /\ UNCHANGED <<loadVars, execVars>>

\* The child fork_server() makes: a copy of the server that goes on at
\* set_server_cmdline() and then success = 1; fopen(...).
ForkedChild ==
    [NoProc("fopen") EXCEPT !.reason = DUMP_CHECKPOINT,
                            !.temp_name = proc[Server].temp_name,
                            !.mem = store,
                            !.d_at_fork = disk[dump_db_name]]

\* fork_server() returned FORK_PARENT here and FORK_CHILD in the new process:
\* reset_command_history(); return 1.
ForkParent ==
    /\ proc[Server].pc = "fork_server"
    /\ proc' = [proc EXCEPT ![Server] = NoProc("idle"),
                            ![dump_generation] = ForkedChild]
    /\ command_history' = FALSE
    /\ ret' = 1
    /\ UNCHANGED <<store, dump_generation, disk>>
    /\ UNCHANGED <<loadVars, execVars>>

\* fork_server() returned FORK_ERROR: return 0.
ForkError ==
    /\ proc[Server].pc = "fork_server"
    /\ proc' = [proc EXCEPT ![Server] = NoProc("idle")]
    /\ ret' = 0
    /\ UNCHANGED <<store, dump_generation, command_history, disk>>
    /\ UNCHANGED <<loadVars, execVars>>

\* success = 1; f = fopen(temp_name, "w") succeeded: the file is created, or
\* truncated when the name exists (D.PANIC of an earlier attempt).
FopenOk(p) ==
    /\ proc[p].pc = "fopen"
    /\ disk' = [disk EXCEPT ![proc[p].temp_name] = EmptyFile]
    /\ proc' = [proc EXCEPT ![p].success = 1, ![p].f = "open", ![p].pc = "write_db_file"]
    /\ UNCHANGED <<store, dump_generation, command_history, ret>>
    /\ UNCHANGED <<loadVars, execVars>>

\* fopen failed: "Opening temporary dump file", success = 0, and out.
FopenFail(p) ==
    /\ proc[p].pc = "fopen"
    /\ proc' = [proc EXCEPT ![p] = Finish(p, 0)]
    /\ ret' = Returned(p, 0)
    /\ UNCHANGED <<store, dump_generation, command_history, disk>>
    /\ UNCHANGED <<loadVars, execVars>>

\* What writing data to FILE f (opened under name) leaves on disk.
Written(d, name, data, synced) ==
    IF d[name].exists THEN [d EXCEPT ![name] = [exists |-> TRUE, data |-> data,
                                                 synced |-> synced]]
    ELSE d

\* write_db_file(...) returns 1: header, objects 0..max_oid, programs, tasks and
\* connections are all in the file; then fflush, fsync, fclose.  A panic dump
\* is over here.
WriteDbFile(p) ==
    /\ proc[p].pc = "write_db_file"
    /\ LET h == FlushSyncClose([f |-> proc[p].f, synced |-> FALSE])
           next == AfterFclose(proc[p].reason)
       IN /\ proc' = [proc EXCEPT ![p] =
                        IF next = "finish" THEN Finish(p, SuccessAfterFclose(proc[p].success))
                        ELSE [@ EXCEPT !.f = h.f, !.synced = h.synced, !.pc = next]]
          /\ ret' = IF next = "finish"
                    THEN Returned(p, SuccessAfterFclose(proc[p].success)) ELSE ret
          /\ disk' = Written(disk, proc[p].temp_name, Serialize(Memory(p)), h.synced)
    /\ UNCHANGED <<store, dump_generation, command_history>>
    /\ UNCHANGED <<loadVars, execVars>>

\* A dbio write raises dbpriv_dbio_failed after k items: write_db_file returns 0.
\* (A failed shutdown dump takes a new generation, which the model has up to
\* MaxGen.)
WriteFail(p) ==
    /\ proc[p].pc = "write_db_file"
    /\ proc[p].reason = DUMP_SHUTDOWN => dump_generation < MaxGen
    /\ \E k \in 0 .. Len(Memory(p)) + 1 :
         disk' = Written(disk, proc[p].temp_name, SubSeq(Serialize(Memory(p)), 1, k), FALSE)
    /\ proc' = [proc EXCEPT ![p].pc = "dump_failed"]
    /\ UNCHANGED <<store, dump_generation, command_history, ret>>
    /\ UNCHANGED <<loadVars, execVars>>

\* log_perror; fclose(f); remove(temp_name); then abandon (success = 0, and
\* out), or sleep and retry.
DumpFailed(p) ==
    /\ proc[p].pc = "dump_failed"
    /\ disk' = Remove(disk, proc[p].temp_name)
    /\ LET next == AfterDumpFailed(proc[p].reason)
           success == SuccessAfterDumpFailed(proc[p].reason, proc[p].success)
       IN /\ proc' = [proc EXCEPT ![p] =
                        IF next = "finish" THEN Finish(p, success)
                        ELSE [@ EXCEPT !.f = "closed", !.success = success, !.pc = next]]
          /\ ret' = IF next = "finish" THEN Returned(p, success) ELSE ret
    /\ UNCHANGED <<store, dump_generation, command_history>>
    /\ UNCHANGED <<loadVars, execVars>>

\* timer_sleep(retry_interval); goto retryDumping
TimerSleep(p) ==
    /\ proc[p].pc = "timer_sleep"
    /\ proc' = [proc EXCEPT ![p].pc = "retryDumping"]
    /\ UNCHANGED <<store, dump_generation, command_history, disk, ret>>
    /\ UNCHANGED <<loadVars, execVars>>

\* remove(dump_db_name)
RemoveD(p) ==
    /\ proc[p].pc = "remove_d"
    /\ disk' = Remove(disk, dump_db_name)
    /\ proc' = [proc EXCEPT ![p].pc = "rename"]
    /\ UNCHANGED <<store, dump_generation, command_history, ret>>
    /\ UNCHANGED <<loadVars, execVars>>

\* rename(temp_name, dump_db_name) == 0, and out with success as it is.
RenameOk(p) ==
    /\ proc[p].pc = "rename"
    /\ disk[proc[p].temp_name].exists
    /\ disk' = [disk EXCEPT ![dump_db_name] = disk[proc[p].temp_name],
                            ![proc[p].temp_name] = NoFile]
    /\ proc' = [proc EXCEPT ![p] = Finish(p, proc[p].success)]
    /\ ret' = Returned(p, proc[p].success)
    /\ UNCHANGED <<store, dump_generation, command_history>>
    /\ UNCHANGED <<loadVars, execVars>>

\* rename(temp_name, dump_db_name) != 0: the temporary is gone (ENOENT), or the
\* file system refuses: "Renaming temporary dump file", success = 0, and out.
RenameFail(p) ==
    /\ proc[p].pc = "rename"
    /\ proc' = [proc EXCEPT ![p] = Finish(p, 0)]
    /\ ret' = Returned(p, 0)
    /\ UNCHANGED <<store, dump_generation, command_history, disk>>
    /\ UNCHANGED <<loadVars, execVars>>

\* The checkpointer child is killed (a signal, the machine's OOM killer) before
\* it has left dump_database: it takes no further step.
Kill(c) ==
    /\ c \in Children
    /\ Running(c)
    /\ proc' = [proc EXCEPT ![c] = [NoProc("killed") EXCEPT !.d_at_fork = proc[c].d_at_fork]]
    /\ UNCHANGED <<store, dump_generation, command_history, disk, ret>>
    /\ UNCHANGED <<loadVars, execVars>>

----------------------------------------------------------------------------
DumpStep(p) ==
    \/ FopenOk(p)
    \/ FopenFail(p)
    \/ WriteDbFile(p)
    \/ WriteFail(p)
    \/ DumpFailed(p)
    \/ TimerSleep(p)
    \/ RemoveD(p)
    \/ RenameOk(p)
    \/ RenameFail(p)

Next ==
    \/ Recycle
    \/ FlushNoop
    \/ \E reason \in {DUMP_SHUTDOWN, DUMP_CHECKPOINT, DUMP_PANIC} : EnterDump(reason)
    \/ RetryDumping
    \/ ForkParent
    \/ ForkError
    \/ \E p \in Procs : DumpStep(p)
    \/ \E c \in Children : Kill(c)

Spec == Init /\ [][Next]_vars

TypeOK ==
    /\ store \in [{1} -> {"live", "recycled"}]
    /\ dump_generation \in 0 .. MaxGen
    /\ command_history \in BOOLEAN
    /\ DOMAIN disk = FileNames
    /\ ret \in {-1, 0, 1}

----------------------------------------------------------------------------
(* Vocabulary of the properties *)

DFile == disk[dump_db_name]

\* The process took a step.
Stepped(p) == proc'[p] # proc[p]

\* Child c ends its dump_database in this step.
Exits(c) == Running(c) /\ proc'[c].pc = "exited"

\* A complete dump of mem, made durable.
IsDumpOf(file, mem) == file.exists /\ file.data = Serialize(mem) /\ file.synced

\* The first checkpoint of the server is the only dump there has been, so
\* nothing but child 1 can have touched D since the fork.
OnlyFirstCheckpoint == dump_generation = 1 /\ proc[Server].pc = "idle"

----------------------------------------------------------------------------
(* C1: a checkpoint child killed at any step before its final rename(temp, D)
   completes leaves D on disk with the contents it had when the checkpoint
   started.  Stated for the first checkpoint of a server with no other dump
   around. *)
C1_KilledChildLeavesD ==
    (OnlyFirstCheckpoint /\ proc[1].pc = "killed") => DFile = proc[1].d_at_fork

(* C2: a checkpoint child that fails exits nonzero and the previously
   authoritative D is still on disk with its old contents.  Stated for the
   first checkpoint of a server with no other dump around. *)
C2_FailedChildLeavesD ==
    (OnlyFirstCheckpoint /\ proc[1].pc = "exited" /\ proc[1].status # 0)
        => DFile = proc[1].d_at_fork

(* Parts of C3. *)
C3_ChildPositions ==
    \A c \in Children :
        proc[c].pc \in {"unborn", "fopen", "write_db_file", "dump_failed", "remove_d",
                        "rename", "exited", "killed"}

C3_ChildForward ==
    \A c \in Children :
        Stepped(c) =>
            /\ proc'[c].pc = "fopen" => proc[c].pc = "unborn"
            /\ proc'[c].pc = "write_db_file" => proc[c].pc = "fopen"
            /\ proc'[c].pc = "dump_failed" => proc[c].pc = "write_db_file"
            /\ proc'[c].pc = "remove_d" => proc[c].pc = "write_db_file"
            /\ proc'[c].pc = "rename" => proc[c].pc = "remove_d"
            /\ proc[c].pc \notin {"exited", "killed"}

C3_ExitStatus ==
    \A c \in Children :
        Exits(c) =>
            (proc'[c].status = 0 <=>
                /\ proc[c].pc = "rename"
                /\ IsDumpOf(disk[proc[c].temp_name], proc[c].mem)
                /\ disk'[dump_db_name] = disk[proc[c].temp_name]
                /\ ~disk'[proc[c].temp_name].exists)

(* C3: a checkpointer child makes one open-and-serialize attempt and ends by
   exit: it is never in the retry loop nor back in the server; every step
   takes it forward; and its exit status is 0 exactly when its temporary was
   completely written and renamed to D. *)
C3_ChildOneAttemptThenExit ==
    [] C3_ChildPositions /\ [][C3_ChildForward /\ C3_ExitStatus]_vars

\* One child has exited 0 and another nonzero.
C3_Witness ==
    /\ proc[1].pc = "exited" /\ proc[1].status = 0
    /\ proc[2].pc = "exited" /\ proc[2].status = 1

----------------------------------------------------------------------------
(* Parts of C4. *)

\* Who is about to remove D or to rename onto it has written its temporary in
\* full, flushed it, fsync'ed it and closed it, and is no panic dump.
C4_SyncedBeforeRemove ==
    \A p \in Procs :
        proc[p].pc \in {"remove_d", "rename"} =>
            /\ proc[p].f = "closed"
            /\ proc[p].synced
            /\ proc[p].reason # DUMP_PANIC

\* D changes only by the remove or the rename of such a process; remove comes
\* right after the successful serialization, rename right after remove; what
\* is renamed to D is a complete, durable dump; a failed serialization is
\* followed by no remove of D.
C4_Order ==
    /\ disk'[dump_db_name] # disk[dump_db_name] =>
          \E p \in Procs :
              /\ Stepped(p)
              /\ \/ proc[p].pc = "remove_d" /\ ~disk'[dump_db_name].exists
                 \/ proc[p].pc = "rename" /\ IsDumpOf(disk'[dump_db_name], Memory(p))
    /\ \A p \in Procs :
          Stepped(p) =>
              /\ proc'[p].pc = "remove_d" => proc[p].pc = "write_db_file"
              /\ proc'[p].pc = "rename" => proc[p].pc = "remove_d"
              /\ proc[p].pc = "dump_failed" =>
                    /\ disk'[dump_db_name] = disk[dump_db_name]
                    /\ proc'[p].pc \notin {"remove_d", "rename"}

(* C4: on a successful non-panic dump the steps come in the order full
   serialization, fflush, fsync, fclose, remove(D), rename(temp, D): D is not
   removed or replaced before the fsync of the complete temporary, and not at
   all after a failed serialization. *)
C4_SyncThenRemoveThenRename ==
    [] C4_SyncedBeforeRemove /\ [][C4_Order]_vars

\* A shutdown dump, the server's first dump, whose first attempt failed in the
\* serialization and whose second one has removed D and is about to rename.
C4_Witness ==
    /\ proc[Server].pc = "rename" /\ proc[Server].reason = DUMP_SHUTDOWN
    /\ dump_generation = 2 /\ ret = -1
    /\ ~DFile.exists
    /\ IsDumpOf(disk[TempName(2)], store)

----------------------------------------------------------------------------
(* Parts of C5. *)

\* What a child has written under its temporary's name is the dump of the
\* store it was forked with.
C5_TempIsAtForkImage ==
    \A c \in Children :
        (proc[c].pc \in {"remove_d", "rename"} /\ disk[proc[c].temp_name].exists)
            => disk[proc[c].temp_name].data = Serialize(proc[c].mem)

\* The child is born with the store of the instant of the fork, keeps it
\* whatever the server does to its own, and what its rename makes D is the
\* dump of it.
C5_Snapshot ==
    \A c \in Children :
        /\ (proc[c].pc = "unborn" /\ proc'[c].pc # "unborn") => proc'[c].mem = store
        /\ (Running(c) /\ proc'[c].pc \notin {"exited", "killed"})
              => proc'[c].mem = proc[c].mem
        /\ (Exits(c) /\ proc'[c].status = 0)
              => disk'[dump_db_name].data = Serialize(proc[c].mem)

(* C5: the file a forked checkpoint child makes D is the dump of the store as
   it was at the fork; what the server does to the store between the fork and
   the child's rename is not in it. *)
C5_ChildWritesAtForkImage ==
    [] C5_TempIsAtForkImage /\ [][C5_Snapshot]_vars

\* The server has recycled the object since the fork; the child is about to
\* rename a temporary in which the object is live.
C5_Witness ==
    /\ proc[1].pc = "rename"
    /\ proc[1].mem = <<"live">> /\ store = <<"recycled">>
    /\ disk[TempName(1)].exists
    /\ disk[TempName(1)].data = Serialize(<<"live">>)

----------------------------------------------------------------------------
(* Parts of C6. *)

\* The server is in a checkpoint only to name the temporary and to fork.
C6_ParentPositions ==
    proc[Server].reason = DUMP_CHECKPOINT
        => proc[Server].pc \in {"retryDumping", "fork_server"}

\* A step of the server in dump_database(DUMP_CHECKPOINT): all it does to the
\* disk is to unlink the previous temporary on its way to the fork; at the
\* fork it is back in the server loop at once, with 1, an empty command
\* history and a child at its fopen, or with 0 and nothing else changed.
C6_ParentStep ==
    (proc[Server].reason = DUMP_CHECKPOINT /\ Stepped(Server)) =>
        /\ \A n \in FileNames :
              disk'[n] # disk[n] =>
                  /\ proc[Server].pc = "retryDumping"
                  /\ n = TempName(dump_generation)
                  /\ ~disk'[n].exists
        /\ proc[Server].pc = "retryDumping" =>
              /\ proc'[Server].pc = "fork_server"
              /\ \A c \in Children : proc'[c] = proc[c]
              /\ UNCHANGED <<ret, command_history>>
        /\ proc[Server].pc = "fork_server" =>
              /\ proc'[Server].pc = "idle"
              /\ UNCHANGED <<disk, dump_generation, store>>
              /\ \/ /\ ret' = 1
                    /\ command_history' = FALSE
                    /\ proc[dump_generation].pc = "unborn"
                    /\ proc'[dump_generation].pc = "fopen"
                    /\ \A c \in Children \ {dump_generation} : proc'[c] = proc[c]
                 \/ /\ ret' = 0
                    /\ command_history' = command_history
                    /\ \A c \in Children : proc'[c] = proc[c]

(* C6: for db_flush(FLUSH_ALL_NOW) the server itself never opens, writes,
   removes D or renames, and does not wait for the child: when the fork
   succeeds it resets the command history and returns 1 at once, when the fork
   fails it returns 0 at once, with no retry and no dump written. *)
C6_ParentForksAndReturns ==
    [] C6_ParentPositions /\ [][C6_ParentStep]_vars

\* A first checkpoint whose fork failed, then, after the server recycled the
\* object, a second one whose child is at its fopen while the server is back
\* in its loop with 1 and an empty command history.
C6_Witness ==
    /\ dump_generation = 2 /\ proc[1].pc = "unborn"
    /\ proc[2].pc = "fopen" /\ proc[2].mem = <<"recycled">>
    /\ proc[Server].pc = "idle" /\ ret = 1 /\ command_history = FALSE

----------------------------------------------------------------------------
(* Parts of C7. *)

\* A panic dump is never at remove(D) or rename, and its file is D.PANIC.
C7_PanicPositions ==
    proc[Server].reason = DUMP_PANIC =>
        /\ proc[Server].pc \notin {"remove_d", "rename", "fork_server"}
        /\ proc[Server].temp_name \in {"", PanicName}

\* A step of a panic dump leaves D as it is; what it changes on disk is
\* D.PANIC, apart from unlinking the last checkpoint's temporary at the top.
C7_PanicStep ==
    (proc[Server].reason = DUMP_PANIC /\ Stepped(Server)) =>
        /\ disk'[dump_db_name] = disk[dump_db_name]
        /\ \A n \in FileNames :
              disk'[n] # disk[n] =>
                  \/ n = PanicName
                  \/ /\ proc[Server].pc = "retryDumping"
                     /\ n = TempName(dump_generation)
                     /\ ~disk'[n].exists

(* C7: a panic dump writes to D.PANIC only; it never removes D, never renames
   anything onto D, and leaves D as it was, whether it succeeds or fails. *)
C7_PanicLeavesD ==
    [] C7_PanicPositions /\ [][C7_PanicStep]_vars

\* The server's only dump was a panic dump, which succeeded: D.PANIC holds the
\* store and D is the old file still.
C7_Witness ==
    /\ proc[Server].pc = "down" /\ proc[Server].reason = DUMP_PANIC
    /\ dump_generation = 0 /\ ret = 1
    /\ IsDumpOf(disk[PanicName], store)
    /\ DFile = OldFile

----------------------------------------------------------------------------
(* C8: when the serialization of a panic dump fails, dump_database(DUMP_PANIC)
   closes and removes the partial file and returns failure, with no sleep and
   no further attempt. *)
C8_PanicGivesUp ==
    [][(proc[Server].reason = DUMP_PANIC /\ proc[Server].pc = "dump_failed"
            /\ Stepped(Server))
        => /\ ~disk'[PanicName].exists
           /\ proc'[Server].pc = "down"
           /\ ret' = 0]_vars

----------------------------------------------------------------------------
(* The server's own steps inside dump_database, and the shutdown dump under
   the scheduling the claim about it supposes: the server process keeps
   running, and a serialization tried again and again succeeds in the end. *)
ServerDumpStep == RetryDumping \/ DumpStep(Server)

FairSpec ==
    Spec /\ WF_vars(ServerDumpStep) /\ SF_vars(WriteDbFile(Server))

(* C9: every failed attempt of a shutdown dump is followed by a sleep and a
   further attempt, so that the dump of db_shutdown finishes only when an
   attempt has written the snapshot in full and renamed it to D. *)
C9_ShutdownFinishesOnlyWithD ==
    [][(proc[Server].reason = DUMP_SHUTDOWN /\ Stepped(Server)
            /\ proc'[Server].pc = "down")
        => /\ proc[Server].pc = "rename"
           /\ IsDumpOf(disk'[dump_db_name], store)
           /\ ret' = 1]_vars

\* A step of the server in dump_database(DUMP_SHUTDOWN).  A failed
\* serialization: the partial temporary is unlinked, then the sleep, then the
\* top of the loop again and the next generation.  The dump ends from a
\* failed fopen or from the rename, and with 1 only by the rename of the
\* complete temporary to D.
C9_ShutdownStep ==
    (proc[Server].reason = DUMP_SHUTDOWN /\ Stepped(Server)) =>
        /\ proc[Server].pc = "dump_failed" =>
              /\ proc'[Server].pc = "timer_sleep"
              /\ ~disk'[proc[Server].temp_name].exists
              /\ disk'[dump_db_name] = disk[dump_db_name]
        /\ proc[Server].pc = "timer_sleep" => proc'[Server].pc = "retryDumping"
        /\ proc[Server].pc = "retryDumping" =>
              /\ proc'[Server].pc = "fopen"
              /\ dump_generation' = dump_generation + 1
        /\ proc'[Server].pc = "down" =>
              /\ proc[Server].pc \in {"fopen", "rename"}
              /\ ret' \in {0, 1}
              /\ ret' = 1 <=>
                    /\ proc[Server].pc = "rename"
                    /\ IsDumpOf(disk[proc[Server].temp_name], store)
                    /\ disk'[dump_db_name] = disk[proc[Server].temp_name]
                    /\ ~disk'[proc[Server].temp_name].exists
              /\ ret' = 0 => disk' = disk

\* A shutdown dump under way comes to its end.
C9_ShutdownEnds ==
    (proc[Server].reason = DUMP_SHUTDOWN) ~> (proc[Server].pc = "down")

(* C9 as amended: a shutdown attempt whose serialization fails is followed by
   a sleep and a further attempt; one whose fopen or rename fails ends the
   dump with failure; the dump returns success only when an attempt has
   written the snapshot in full and renamed it to D; and it does end. *)
C9_ShutdownRetriesSerialization ==
    [][C9_ShutdownStep]_vars /\ C9_ShutdownEnds

\* The first attempt has failed in the serialization and has slept; the
\* server is at the top of the loop for the second.
C9_Witness ==
    /\ proc[Server].reason = DUMP_SHUTDOWN /\ proc[Server].pc = "retryDumping"
    /\ dump_generation = 1 /\ ret = -1
    /\ proc[Server].f = "closed"
    /\ ~disk[TempName(1)].exists

----------------------------------------------------------------------------
(* Parts of C10. *)

\* The temporaries of the dumps under way are distinct, and a non-panic one is
\* named after a generation that has been taken.
C10_DistinctTemps ==
    /\ \A p, q \in Procs :
          (p # q /\ proc[p].temp_name # "" /\ proc[q].temp_name # "")
              => proc[p].temp_name # proc[q].temp_name
    /\ \A c \in Children :
          proc[c].temp_name # "" => (proc[c].temp_name = TempName(c) /\ c <= dump_generation)
    /\ (proc[Server].temp_name # "" /\ proc[Server].reason # DUMP_PANIC)
          => proc[Server].temp_name = TempName(dump_generation)

\* The generation changes at the top of dump_database only: there the
\* temporary of the generation so far is unlinked, then a non-panic attempt
\* takes the next generation and names its temporary after it, a panic
\* attempt leaves the generation and writes D.PANIC.
C10_GenerationStep ==
    /\ dump_generation' >= dump_generation
    /\ dump_generation' # dump_generation =>
          (proc[Server].pc = "retryDumping" /\ proc[Server].reason # DUMP_PANIC)
    /\ (proc[Server].pc = "retryDumping" /\ Stepped(Server)) =>
          /\ ~disk'[TempName(dump_generation)].exists
          /\ IF proc[Server].reason = DUMP_PANIC
             THEN /\ dump_generation' = dump_generation
                  /\ proc'[Server].temp_name = PanicName
             ELSE /\ dump_generation' = dump_generation + 1
                  /\ proc'[Server].temp_name = TempName(dump_generation + 1)
    /\ (proc'[Server].temp_name # proc[Server].temp_name /\ proc'[Server].temp_name # "")
          => proc[Server].pc = "retryDumping"

(* C10: dump_generation never decreases; every non-panic attempt (checkpoint,
   shutdown, a shutdown retry, a checkpoint whose fork fails) adds one to it and
   a panic dump leaves it, so no two non-panic attempts share a temporary name;
   and an attempt unlinks the previous generation's temporary before it names
   its own. *)
C10_GenerationsAreDistinct ==
    [] C10_DistinctTemps /\ [][C10_GenerationStep]_vars

\* After a checkpoint whose fork failed (generation 1), a shutdown attempt is
\* about to open D.#2#.
C10_Witness ==
    /\ proc[Server].reason = DUMP_SHUTDOWN /\ proc[Server].pc = "fopen"
    /\ dump_generation = 2 /\ proc[Server].temp_name = TempName(2)
    /\ proc[1].pc = "unborn" /\ ret = 0


----------------------------------------------------------------------------
(* Loading: values, the legacy (version 4) object table *)

MaxObjs == 3          \* slots of an input: object numbers 0 .. MaxObjs - 1
MaxLinks == 2         \* link fields of a damaged input that are not NOTHING
MaxProgs == 1         \* verb programs of an input whose programs are not its verbs

\* #define NOTHING -1 (structures.h)
NOTHING == 0 - 1

\* An empty slot of an object table: the null pointer a recycled object leaves.
NULL == [null |-> TRUE]

Objids == 0 .. MaxObjs - 1

\* The parts of an object no validator and no link touches; they differ from
\* object to object, so that a mix-up of two objects shows.
NameOf(oid) == <<"name", oid>>
FlagsOf(oid) == 16 + oid
OwnerOf(oid) == IF oid = 0 THEN 0 ELSE oid - 1
\* The verbdefs as read_verbdef leaves them, v->program = 0 (here <<>>): #0
\* has no verb, the objects after it have one verb and two by turns.
VerbdefsOf(oid) ==
    [j \in 1 .. (IF oid = 0 THEN 0 ELSE 2 - (oid % 2)) |->
        [name |-> <<"verb", oid, j - 1>>, owner |-> oid, program |-> <<>>]]
PropdefsOf(oid) == IF oid = 1 THEN <<>> ELSE <<<<"prop", oid>>>>

\* Var values: new_obj(), new_list() + listappend(), and an integer
Obj(oid) == [type |-> "TYPE_OBJ", v |-> oid]
List(seq) == [type |-> "TYPE_LIST", v |-> seq]
Num(n) == [type |-> "TYPE_INT", v |-> n]
ObjList(oids) == List([k \in 1 .. Len(oids) |-> Obj(oids[k])])

\* dbv4_find_object(oid) over a table objs (num_objects is its length)
dbv4_find_object(objs, oid) ==
    IF oid < 0 \/ oid >= Len(objs) THEN NULL ELSE objs[oid + 1]

\* dbv4_valid(oid)
dbv4_valid(objs, oid) == dbv4_find_object(objs, oid) # NULL

\* dbpriv_find_object(oid) over a store st
dbpriv_find_object(st, oid) ==
    IF oid < 0 \/ oid >= Len(st) THEN NULL ELSE st[oid + 1]

\* dbv4_last_used_objid()
dbv4_last_used_objid(objs) == Len(objs) - 1

\* dbv4_count_properties(oid): the propdefs of oid and of its ancestors.  The
\* loop ends only when the parent chain does; n bounds the steps taken here.
RECURSIVE CountProperties4(_, _, _)
CountProperties4(objs, oid, n) ==
    IF n = 0 \/ ~dbv4_valid(objs, oid) THEN 0
    ELSE Len(objs[oid + 1].propdefs)
         + CountProperties4(objs, objs[oid + 1].parent, n - 1)

dbv4_count_properties(objs, oid) == CountProperties4(objs, oid, Len(objs) + 1)

\* The pointer chain start, ->across, ->across ... up to NOTHING, as the loops
\* of the validator and of the migrator walk it.  ends is FALSE when the walk
\* is cut after n objects.
RECURSIVE Walk4(_, _, _, _)
Walk4(objs, start, across, n) ==
    IF start = NOTHING THEN [ids |-> <<>>, ends |-> TRUE]
    ELSE IF n = 0 THEN [ids |-> <<>>, ends |-> FALSE]
    ELSE LET rest == Walk4(objs, dbv4_find_object(objs, start)[across], across, n - 1)
         IN  [ids |-> <<start>> \o rest.ids, ends |-> rest.ends]

\* A chain of more than size objects is cut: `++count > size'.
Chain4(objs, start, across) == Walk4(objs, start, across, Len(objs))

SeqToSet(seq) == {seq[k] : k \in 1 .. Len(seq)}

\* A legacy object as v4_read_object leaves it, links given.
Object4(oid, loc, cont, nxt, par, chi, sib) ==
    [id |-> oid, owner |-> OwnerOf(oid),
     location |-> loc, contents |-> cont, next |-> nxt,
     parent |-> par, child |-> chi, sibling |-> sib,
     name |-> NameOf(oid), flags |-> FlagsOf(oid),
     verbdefs |-> VerbdefsOf(oid), propdefs |-> PropdefsOf(oid),
     propval |-> <<>>]

Unlinked4(oid) == Object4(oid, NOTHING, NOTHING, NOTHING, NOTHING, NOTHING, NOTHING)

\* The propvals v4_read_object reads for each object: as many as the file
\* has, which in a file this server wrote is dbv4_count_properties.
WithPropvals4(objs) ==
    [k \in 1 .. Len(objs) |->
        IF objs[k] = NULL THEN NULL
        ELSE [objs[k] EXCEPT !.propval =
                 [j \in 1 .. dbv4_count_properties(objs, k - 1) |-> <<"value", k - 1, j>>]]]


----------------------------------------------------------------------------
(* Loading: the verb programs of a file *)

\* One write of the dbio codec: what kind of thing was written, and the thing.
Tok(kind, value) == [k |-> kind, v |-> value]

\* write_verbdef, read_verbdef: the name and the owner (perms and prep are
\* left out here); the program is no part of it, and is 0 after the read.
write_verbdef(v) == Tok("verbdef", [name |-> v.name, owner |-> v.owner])
read_verbdef(t) == [name |-> t.v.name, owner |-> t.v.owner, program |-> <<>>]

\* The table tbl with the programs its verbs have in the server that wrote
\* the file: in the objects considered here the last verb of an object has a
\* program, the verbs before it have none.
WithPrograms(tbl) ==
    [k \in 1 .. Len(tbl) |->
        IF tbl[k] = NULL THEN NULL
        ELSE LET vs == tbl[k].verbdefs
             IN  [tbl[k] EXCEPT !.verbdefs =
                     [j \in 1 .. Len(vs) |->
                         [vs[j] EXCEPT !.program =
                             IF j = Len(vs) THEN <<"program", k - 1, j - 1>> ELSE <<>>]]]]

\* nprogs of write_db_file: the verbs with a program, counted over the valid
\* objects before anything is written.
CountPrograms(tbl) ==
    Cardinality(UNION {{<<k, j>> : j \in {i \in 1 .. Len(tbl[k].verbdefs) :
                                               tbl[k].verbdefs[i].program # <<>>}} :
                       k \in {x \in 1 .. Len(tbl) : tbl[x] # NULL}})

\* The second loop of write_db_file with vcount counting only the verbs that
\* have a program.
RECURSIVE WriteProgramsCountingPrograms(_, _)
WriteProgramsCountingPrograms(tbl, oid) ==
    IF oid >= Len(tbl) THEN <<>>
    ELSE LET vs == tbl[oid + 1].verbdefs
             RECURSIVE Verbs(_, _)
             Verbs(at, vcount) ==
                 IF at >= Len(vs) THEN <<>>
                 ELSE IF vs[at + 1].program # <<>>
                 THEN <<Tok("#%d:%d", <<oid, vcount>>), Tok("program", vs[at + 1].program)>>
                      \o Verbs(at + 1, vcount + 1)
                 ELSE Verbs(at + 1, vcount)
         IN  (IF dbpriv_find_object(tbl, oid) = NULL THEN <<>> ELSE Verbs(0, 0))
             \o WriteProgramsCountingPrograms(tbl, oid + 1)

\* The second loop of write_db_file over the objects from oid on: for every
\* valid object its verbs in their order, vcount counting all of them, and
\* "#oid:vcount" with the program for those that have one.
RECURSIVE WritePrograms(_, _)
WritePrograms(tbl, oid) ==
    IF oid >= Len(tbl) THEN <<>>
    ELSE LET vs == tbl[oid + 1].verbdefs
             RECURSIVE Verbs(_)
             Verbs(vcount) ==
                 IF vcount >= Len(vs) THEN <<>>
                 ELSE (IF vs[vcount + 1].program # <<>>
                       THEN <<Tok("#%d:%d", <<oid, vcount>>),
                              Tok("program", vs[vcount + 1].program)>>
                       ELSE <<>>) \o Verbs(vcount + 1)
         IN  (IF dbpriv_find_object(tbl, oid) = NULL THEN <<>> ELSE Verbs(0))
             \o WritePrograms(tbl, oid + 1)

\* What follows the objects in a file: the verb programs, then the task
\* queue and the connections (one piece here).
AfterObjects(tbl) ==
    WritePrograms(tbl, 0) \o <<Tok("tasks, connections", 0)>>

\* The loop of read_db_file over the n verb programs still to read, into the
\* legacy table or the live store tbl: "#%d:%d" gives oid and vnum, the object
\* has to be valid, db(v4)_find_indexed_verb(oid, vnum + 1) has to find the
\* verb (it counts the verbs from 1 and takes the index as unsigned), and the
\* program has to parse; db_set_verb_program binds it.
RECURSIVE ReadPrograms(_, _, _, _)
ReadPrograms(tbl, text, n, legacy) ==
    IF n = 0 THEN [ok |-> TRUE, tbl |-> tbl, rest |-> text]
    ELSE IF text = <<>> \/ text[1].k # "#%d:%d"
    THEN [ok |-> FALSE, tbl |-> tbl, rest |-> text]
    ELSE LET oid == text[1].v[1]
             vnum == text[1].v[2]
             index == IF vnum + 1 < 0 THEN vnum + 1 + 2 ^ 32 ELSE vnum + 1
             o == IF legacy THEN dbv4_find_object(tbl, oid) ELSE dbpriv_find_object(tbl, oid)
         IN  IF o = NULL
             THEN [ok |-> FALSE, tbl |-> tbl, rest |-> text]
             ELSE IF index \notin 1 .. Len(o.verbdefs)
             THEN [ok |-> FALSE, tbl |-> tbl, rest |-> text]
             ELSE IF Len(text) < 2 \/ text[2].k # "program"
             THEN [ok |-> FALSE, tbl |-> tbl, rest |-> text]
             ELSE ReadPrograms([tbl EXCEPT ![oid + 1].verbdefs[index].program = text[2].v],
                               SubSeq(text, 3, Len(text)), n - 1, legacy)

----------------------------------------------------------------------------
(* Loading: the input files considered *)

\* Two orders in which the objects of a set can stand in their lists: by
\* rising and by falling number.  Both are taken for the inputs whose two
\* relations have the same shape, the rising one alone for the others.
Orders(live, both) ==
    LET n == Cardinality(live)
        Rising == [k \in 1 .. n |->
                      CHOOSE o \in live : Cardinality({x \in live : x < o}) = k - 1]
    IN  IF both THEN {Rising, [k \in 1 .. n |-> Rising[n + 1 - k]]} ELSE {Rising}

\* up[o], up[up[o]], ... reaches NOTHING within n steps
RECURSIVE ReachesTop(_, _, _)
ReachesTop(up, o, n) ==
    \/ o = NOTHING
    \/ n > 0 /\ ReachesTop(up, up[o], n - 1)

\* The assignments of a parent (or a location) to the objects of live in
\* which no object is its own ancestor.
Forests(live) ==
    {up \in [live -> live \cup {NOTHING}] :
        \A o \in live : ReachesTop(up, o, Cardinality(live))}

\* The objects below top, in the order of order.
Below(up, top, order) == SelectSeq(order, LAMBDA o : up[o] = top)

\* The head of the list of the objects below top.
FirstBelow(up, top, order) ==
    IF Below(up, top, order) = <<>> THEN NOTHING ELSE Head(Below(up, top, order))

\* The object after o in the list o stands in; NOTHING for the last one and
\* for an object that stands in no list.
NextBelow(up, o, order) ==
    LET lst == Below(up, up[o], order)
        k == CHOOSE i \in 1 .. Len(lst) : lst[i] = o
    IN  IF up[o] = NOTHING \/ k = Len(lst) THEN NOTHING ELSE lst[k + 1]

\* A legacy table as a server that kept its invariants dumped it: the
\* objects of live exist, par and loc are forests, and the intrusive lists
\* hold exactly the objects below each object.
WellFormed4(live, par, loc, order) ==
    WithPropvals4(
        [k \in 1 .. MaxObjs |->
            IF k - 1 \notin live THEN NULL
            ELSE Object4(k - 1,
                         loc[k - 1], FirstBelow(loc, k - 1, order), NextBelow(loc, k - 1, order),
                         par[k - 1], FirstBelow(par, k - 1, order), NextBelow(par, k - 1, order))])


\* An input with damage: the objects of live exist, and the link fields named
\* in links hold what the file says, whatever it says.
Damaged4(live, links) ==
    WithPropvals4(
        [k \in 1 .. MaxObjs |->
            IF k - 1 \notin live THEN NULL
            ELSE LET L(f) == IF <<k - 1, f>> \in DOMAIN links
                             THEN links[<<k - 1, f>>] ELSE NOTHING
                 IN  Object4(k - 1, L("location"), L("contents"), L("next"),
                             L("parent"), L("child"), L("sibling"))])

\* enum DB_Version (version.h): every version below DBV_NextGen is read as
\* a version 4 file.
DBV_Prehistory == 0
DBV_BFBugFixed == 4
DBV_NextGen == 5

\* DBV_NextGen > dbio_input_version
IsLegacy(version) == DBV_NextGen > version

----------------------------------------------------------------------------
(* v4_validate_hierarchies *)

\* A slip: only the range of the link is tested, so that a link to an empty
\* slot is kept.
Check4InRange(objs, o, field) ==
    IF o[field] # NOTHING /\ (o[field] < 0 \/ o[field] >= Len(objs))
    THEN [o EXCEPT ![field] = NOTHING]
    ELSE o

\* CHECK(field, name) of phase 1: a link to no object is made NOTHING.
Check4(objs, o, field) ==
    IF o[field] # NOTHING /\ dbv4_find_object(objs, o[field]) = NULL
    THEN [o EXCEPT ![field] = NOTHING]
    ELSE o

\* if (o->location == NOTHING && o->next != NOTHING)
ShouldBeNullNext(o) == o.location = NOTHING /\ o.next # NOTHING

\* The body of the phase 1 loop for one object: the should-be-null next is
\* cleared first, then the six CHECKs in the order of the source.
V4Phase1Object(objs, o) ==
    LET o0 == IF ShouldBeNullNext(o) THEN [o EXCEPT !.next = NOTHING] ELSE o
        o1 == Check4(objs, o0, "parent")
        o2 == Check4(objs, o1, "child")
        o3 == Check4(objs, o2, "sibling")
        o4 == Check4(objs, o3, "location")
        o5 == Check4(objs, o4, "contents")
    IN  Check4(objs, o5, "next")

\* Phase 1 over the table, and its fixed_nexts.
V4Phase1(objs) ==
    [k \in 1 .. Len(objs) |->
        IF objs[k] = NULL THEN NULL ELSE V4Phase1Object(objs, objs[k])]

V4FixedNexts(objs) ==
    Cardinality({k \in 1 .. Len(objs) : objs[k] # NULL /\ ShouldBeNullNext(objs[k])})

\* CHECK(start, field, name) of phase 2: the chain has more than size objects.
V4Cycle(objs, start, field) == ~Chain4(objs, start, field).ends

\* Phase 2 with the two upward CHECKs only
V4Phase2UpOnly(objs) ==
    \E k \in 1 .. Len(objs) :
        /\ objs[k] # NULL
        /\ \/ V4Cycle(objs, objs[k].parent, "parent")
           \/ V4Cycle(objs, objs[k].location, "location")

\* broken after phase 2
V4Phase2Broken(objs) ==
    \E k \in 1 .. Len(objs) :
        /\ objs[k] # NULL
        /\ \/ V4Cycle(objs, objs[k].parent, "parent")
           \/ V4Cycle(objs, objs[k].child, "sibling")
           \/ V4Cycle(objs, objs[k].location, "location")
           \/ V4Cycle(objs, objs[k].contents, "next")

\* First CHECK of phase 3: oid is not in its up's down list.
V4NotInUpsList(objs, o, up, down, across) ==
    /\ o[up] # NOTHING
    /\ o.id \notin SeqToSet(Chain4(objs, dbv4_find_object(objs, o[up])[down], across).ids)

\* Second CHECK of phase 3: some object of oid's down list has another up.
V4ErroneouslyOnList(objs, o, up, down, across) ==
    \E oid2 \in SeqToSet(Chain4(objs, o[down], across).ids) :
        dbv4_find_object(objs, oid2)[up] # o.id

\* broken after phase 3
V4Phase3Broken(objs) ==
    \E k \in 1 .. Len(objs) :
        /\ objs[k] # NULL
        /\ \/ V4NotInUpsList(objs, objs[k], "parent", "child", "sibling")
           \/ V4NotInUpsList(objs, objs[k], "location", "contents", "next")
           \/ V4ErroneouslyOnList(objs, objs[k], "parent", "child", "sibling")
           \/ V4ErroneouslyOnList(objs, objs[k], "location", "contents", "next")

----------------------------------------------------------------------------
(* v4_upgrade_objects *)

\* The object dbpriv_new_object() made under the number new_id, with what the
\* migrator stores in it.
Upgraded(o, new_id, par, chi, loc, cont) ==
    [id |-> new_id,
     name |-> o.name,
     flags |-> o.flags,
     owner |-> o.owner,
     parents |-> par,
     children |-> chi,
     location |-> loc,
     contents |-> cont,
     verbdefs |-> o.verbdefs,
     propdefs |-> o.propdefs,
     propval |-> o.propval]

\* A slip: the children are collected along next, the pointer of the other
\* list.
UpgradeObjectAlongNext(objs, o, new_id) ==
    Upgraded(o, new_id,
             Obj(o.parent),
             ObjList(Chain4(objs, o.child, "next").ids),
             Obj(o.location),
             ObjList(Chain4(objs, o.contents, "next").ids))

\* A slip: an object without a parent is given the empty list of parents.
UpgradeObjectNoParents(objs, o, new_id) ==
    Upgraded(o, new_id,
             IF o.parent = NOTHING THEN List(<<>>) ELSE Obj(o.parent),
             ObjList(Chain4(objs, o.child, "sibling").ids),
             Obj(o.location),
             ObjList(Chain4(objs, o.contents, "next").ids))

\* The body of the loop for one legacy object: parents and location are
\* new_obj() of the legacy parent and location, children and contents the
\* lists the two for loops append to.
UpgradeObject(objs, o, new_id) ==
    Upgraded(o, new_id,
             Obj(o.parent),
             ObjList(Chain4(objs, o.child, "sibling").ids),
             Obj(o.location),
             ObjList(Chain4(objs, o.contents, "next").ids))

\* A slip: the empty slots of the legacy table are passed over, so that the
\* objects after them move down.
UpgradeSkippingRecycled(objs) ==
    LET kept == SelectSeq(objs, LAMBDA o : o # NULL)
    IN  [k \in 1 .. Len(kept) |-> UpgradeObject(objs, kept[k], k - 1)]

\* The live store v4_upgrade_objects builds, slot by slot: an object for a
\* legacy object, dbpriv_new_recycled_object() for an empty slot.
v4_upgrade_objects(objs) ==
    [k \in 1 .. Len(objs) |->
        IF objs[k] = NULL THEN NULL ELSE UpgradeObject(objs, objs[k], k - 1)]

\* The two loops of the migrator come to an end.
UpgradeWalksEnd(objs) ==
    \A k \in 1 .. Len(objs) :
        objs[k] # NULL =>
            /\ Chain4(objs, objs[k].child, "sibling").ends
            /\ Chain4(objs, objs[k].contents, "next").ends


----------------------------------------------------------------------------
(* read_db_file on a version 4 input *)

\* The dump side when no dump has been asked for.
DumpIdle ==
    /\ dump_generation = 0
    /\ command_history = FALSE
    /\ disk = [n \in FileNames |-> NoFile]
    /\ proc = [p \in Procs |-> IF p = Server THEN NoProc("idle") ELSE NoProc("unborn")]
    /\ ret = -1

\* The legacy tables v4_read_object has built when the loop over the nobjs
\* objects of a version 4 file is over: those of a consistent server, and
\* those with up to MaxLinks arbitrary links of one relation in #0 and #1.
LegacyInputs(objs) ==
    \E live \in SUBSET Objids :
        \/ \E par \in Forests(live), loc \in Forests(live) :
               \E order \in Orders(live, loc = par) :
                   objs = WellFormed4(live, par, loc, order)
        \/ \E fields \in {{"parent", "child", "sibling"}, {"location", "contents", "next"}} :
               \E at \in {a \in SUBSET ((live \cap {0, 1}) \X fields) :
                              Cardinality(a) <= MaxLinks} :
                   \E links \in [at -> 0 .. MaxObjs] :
                       objs = Damaged4(live, links)

\* read_db_file has read the objects of a version 4 file and is about to
\* call v4_validate_hierarchies.
LegacyLoadInit ==
    /\ store = <<>>
    /\ dbio_input_version = DBV_BFBugFixed
    /\ LegacyInputs(objects)
    /\ load_pc = "phase_1"
    /\ broken = 0
    /\ fixed_nexts = 0
    /\ dbio = AfterObjects(WithPrograms(objects))
    /\ nprogs = CountPrograms(WithPrograms(objects))
    /\ DumpIdle
    /\ ExecIdle

\* Phase 1: Check for invalid objects
V4ValidatePhase1 ==
    /\ load_pc = "phase_1"
    /\ IsLegacy(dbio_input_version)
    /\ objects' = V4Phase1(objects)
    /\ fixed_nexts' = V4FixedNexts(objects)
    /\ broken' = 0
    /\ load_pc' = "phase_2"
    /\ UNCHANGED <<store, dbio_input_version, dbio, nprogs, dumpVars, execVars>>

\* Phase 2: Check for cycles; if (broken) return 0
V4ValidatePhase2 ==
    /\ load_pc = "phase_2"
    /\ IsLegacy(dbio_input_version)
    /\ broken' = IF V4Phase2Broken(objects) THEN 1 ELSE 0
    /\ load_pc' = IF V4Phase2Broken(objects) THEN "failed" ELSE "phase_3"
    /\ UNCHANGED <<store, dbio_input_version, objects, fixed_nexts, dbio, nprogs, dumpVars, execVars>>

\* Phase 3: Check for inconsistencies; return !broken
V4ValidatePhase3 ==
    /\ load_pc = "phase_3"
    /\ IsLegacy(dbio_input_version)
    /\ broken' = IF V4Phase3Broken(objects) THEN 1 ELSE 0
    /\ load_pc' = IF V4Phase3Broken(objects) THEN "failed" ELSE "programs"
    /\ UNCHANGED <<store, dbio_input_version, objects, fixed_nexts, dbio, nprogs, dumpVars, execVars>>

\* The nprogs verb programs are read and bound to their verbs, in the legacy
\* table or in the live store; read_db_file returns 0 at the first bad one.
ReadVerbPrograms ==
    /\ load_pc = "programs"
    /\ LET legacy == IsLegacy(dbio_input_version)
           read == ReadPrograms(IF legacy THEN objects ELSE store, dbio, nprogs, legacy)
       IN  /\ objects' = IF legacy THEN read.tbl ELSE objects
           /\ store' = IF legacy THEN store ELSE read.tbl
           /\ dbio' = read.rest
           /\ load_pc' = IF read.ok THEN "queues" ELSE "failed"
    /\ UNCHANGED <<dbio_input_version, broken, fixed_nexts, nprogs, dumpVars, execVars>>

\* read_db_file returning 1 once the task queue and the connections are
\* read, whatever the version.
ReadRestThenLoaded ==
    /\ load_pc = "queues"
    /\ \E ok \in BOOLEAN : load_pc' = IF ~ok THEN "failed" ELSE "loaded"
    /\ UNCHANGED <<store, dbio_input_version, objects, broken, fixed_nexts, dbio, nprogs,
                   dumpVars, execVars>>

\* The task queue and the connections are read: either can be bad, and
\* read_db_file returns 0 then.
ReadRest ==
    /\ load_pc = "queues"
    /\ \E ok \in BOOLEAN :
         load_pc' = IF ~ok THEN "failed"
                    ELSE IF IsLegacy(dbio_input_version) THEN "upgrade" ELSE "loaded"
    /\ UNCHANGED <<store, dbio_input_version, objects, broken, fixed_nexts, dbio, nprogs,
                   dumpVars, execVars>>

\* if (DBV_NextGen > dbio_input_version) v4_upgrade_objects(); return 1
V4Upgrade ==
    /\ load_pc = "upgrade"
    /\ IsLegacy(dbio_input_version)
    /\ UpgradeWalksEnd(objects)
    /\ store' = v4_upgrade_objects(objects)
    /\ objects' = <<>>
    /\ load_pc' = "loaded"
    /\ UNCHANGED <<dbio_input_version, broken, fixed_nexts, dbio, nprogs, dumpVars, execVars>>

LegacyLoadSpec ==
    /\ LegacyLoadInit
    /\ [][\/ V4ValidatePhase1
         \/ V4ValidatePhase2
         \/ V4ValidatePhase3
         \/ ReadVerbPrograms
         \/ ReadRest
         \/ V4Upgrade]_vars


----------------------------------------------------------------------------
(* Claims about the migration *)

\* read_db_file is in the legacy table (validating it, or past the validator).
InLegacyTable ==
    load_pc \in {"phase_1", "phase_2", "phase_3", "programs", "queues", "upgrade"}

\* The step v4_upgrade_objects takes.
Upgrades == load_pc = "upgrade" /\ load_pc' = "loaded"

\* Table b has the slots of table a: as many, empty where a's are empty, and
\* in every other slot an object with the number of the slot and with a's
\* name, flags, owner, verbdefs, propdefs and propvals.
SameSlots(a, b) ==
    /\ Len(b) = Len(a)
    /\ \A k \in 1 .. Len(a) :
         /\ b[k] = NULL <=> a[k] = NULL
         /\ a[k] # NULL =>
              /\ a[k].id = k - 1
              /\ b[k].id = k - 1
              /\ b[k].name = a[k].name
              /\ b[k].flags = a[k].flags
              /\ b[k].owner = a[k].owner
              /\ b[k].verbdefs = a[k].verbdefs
              /\ b[k].propdefs = a[k].propdefs
              /\ b[k].propval = a[k].propval

\* The validator leaves the slots of the legacy table as the file gave them,
\* the verb programs are bound to the verbs they belong to, and the migrator
\* gives the live store those slots.
C15_Step ==
    /\ (InLegacyTable /\ ~Upgrades /\ load_pc # "programs") => SameSlots(objects, objects')
    /\ load_pc = "programs" => SameSlots(WithPrograms(objects), objects')
    /\ Upgrades => SameSlots(objects, store')

(* C15: migration keeps ids stable: the live store a version 4 input is loaded
   into has the input's high-water mark, is live exactly in the slots where
   the input is, every live object has the number of its slot and the name,
   flags, owner, verbdefs, propdefs and propvals of the legacy object of that
   number. *)
C15_MigrationKeepsIds == [][C15_Step]_vars

\* A loaded version 4 input whose slot 1 is recycled: the object after it is
\* still #2 and the high-water mark is that of the input.
C15_Witness ==
    /\ load_pc = "loaded"
    /\ Len(store) = MaxObjs
    /\ store[1] # NULL /\ store[2] = NULL /\ store[3] # NULL
    /\ store[3].id = 2 /\ store[3].name = NameOf(2)

\* The list lst is the walk from first along across: it starts with first,
\* each member is followed by its across, and the last one's across is
\* NOTHING; every member is a legacy object.
IsWalk(objs, lst, first, across) ==
    /\ lst.type = "TYPE_LIST"
    /\ IF first = NOTHING THEN lst.v = <<>>
       ELSE /\ Len(lst.v) >= 1
            /\ lst.v[1] = Obj(first)
            /\ \A i \in 1 .. Len(lst.v) :
                 /\ lst.v[i].type = "TYPE_OBJ"
                 /\ dbv4_valid(objs, lst.v[i].v)
                 /\ i < Len(lst.v) => lst.v[i + 1] = Obj(objs[lst.v[i].v + 1][across])
            /\ objs[lst.v[Len(lst.v)].v + 1][across] = NOTHING

\* The walks of the migrator over a validated table come to an end.
C16_WalksEnd == load_pc = "upgrade" => UpgradeWalksEnd(objects)

C16_Step ==
    Upgrades =>
        \A k \in 1 .. Len(objects) :
            objects[k] # NULL =>
                /\ IsWalk(objects, store'[k].children, objects[k].child, "sibling")
                /\ IsWalk(objects, store'[k].contents, objects[k].contents, "next")

(* C16: for every live object of a validated version 4 input the migrated
   children are, in order, the objects of the walk child, sibling, sibling ...
   up to NOTHING, and the migrated contents those of the walk contents, next,
   next ...; both walks end and meet live legacy objects only. *)
C16_ListsAreTheWalks == []C16_WalksEnd /\ [][C16_Step]_vars

\* Object #0 has been given two children, #2 before #1, and two contents.
C16_Witness ==
    /\ load_pc = "loaded"
    /\ IsLegacy(dbio_input_version)
    /\ store[1] # NULL
    /\ store[1].children = ObjList(<<2, 1>>)
    /\ Len(store[1].contents.v) = 2

(* C17: migration sets the parents of every live object of a version 4 input
   to a one-element list holding the legacy parent; [NOTHING] when the legacy
   parent is NOTHING, never the empty list. *)
C17_ParentsIsOneElementList ==
    [][Upgrades =>
          \A k \in 1 .. Len(objects) :
              objects[k] # NULL => store'[k].parents = ObjList(<<objects[k].parent>>)]_vars

\* db_ancestors and the validator read parents through enlist_var(): an
\* object value stands for the list of that one object.
enlist_var(v) == IF v.type = "TYPE_LIST" THEN v ELSE List(<<v>>)

(* C17 as the code has it: migration sets parents to the object value of the
   legacy parent, not to a list; read as a list it is the one legacy parent,
   [NOTHING] when the legacy parent is NOTHING, never the empty list. *)
C17_ParentsIsTheParentValue ==
    [][Upgrades =>
          \A k \in 1 .. Len(objects) :
              objects[k] # NULL =>
                  /\ store'[k].parents = Obj(objects[k].parent)
                  /\ enlist_var(store'[k].parents) = ObjList(<<objects[k].parent>>)]_vars

\* A migrated store with an object without a parent and an object with one.
C17_Witness ==
    /\ load_pc = "loaded"
    /\ IsLegacy(dbio_input_version)
    /\ store[1] # NULL /\ store[1].parents = Obj(NOTHING)
    /\ store[2] # NULL /\ store[2].parents = Obj(0)


----------------------------------------------------------------------------
(* The live store and its dump: ng_write_object, ng_read_object *)

\* The object numbers a field holds, read through enlist_var(); a value that
\* is no object (a type error) holds none.
ObjsOf(v) ==
    LET l == enlist_var(v).v
    IN  {l[k].v : k \in {j \in 1 .. Len(l) : l[j].type = "TYPE_OBJ"}}

\* The numbers reached from the objects of from in one step along field, and
\* in any number of steps (n bounds the steps: no path without a repetition
\* is longer than the store).
StepAlong(st, from, field) ==
    UNION {ObjsOf(st[o + 1][field]) : o \in {x \in from : dbpriv_find_object(st, x) # NULL}}

RECURSIVE ReachAlong(_, _, _, _)
ReachAlong(st, from, field, n) ==
    IF n = 0 THEN {}
    ELSE StepAlong(st, from, field)
         \cup ReachAlong(st, StepAlong(st, from, field), field, n - 1)

\* db_ancestors(oid, false) and db_all_locations(oid, false): the full set
\* of the ancestors, and of the enclosing locations, without oid itself
\* unless it is its own ancestor.
db_ancestors(st, oid) == ReachAlong(st, {oid}, "parents", Len(st) + 1) \ {NOTHING}
db_all_locations(st, oid) == ReachAlong(st, {oid}, "location", Len(st) + 1) \ {NOTHING}

\* dbpriv_count_properties(oid): the propdefs of oid and of all its ancestors
RECURSIVE SumPropdefs(_, _)
SumPropdefs(st, oids) ==
    IF oids = {} THEN 0
    ELSE LET o == CHOOSE x \in oids : TRUE
         IN  (IF dbpriv_find_object(st, o) = NULL THEN 0 ELSE Len(st[o + 1].propdefs))
             + SumPropdefs(st, oids \ {o})

dbpriv_count_properties(st, oid) == SumPropdefs(st, {oid} \cup db_ancestors(st, oid))

\* dbio_write_var: the type, then the value; for a list its length and its
\* elements, each written the same way.
RECURSIVE dbio_write_var(_)
dbio_write_var(v) ==
    IF v.type = "TYPE_LIST"
    THEN LET RECURSIVE Elements(_)
             Elements(k) == IF k > Len(v.v) THEN <<>>
                            ELSE dbio_write_var(v.v[k]) \o Elements(k + 1)
         IN  <<Tok("type", v.type), Tok("num", Len(v.v))>> \o Elements(1)
    ELSE <<Tok("type", v.type), Tok("num", v.v)>>

\* The propvals ng_write_object writes: nprops of them, from o->propval.
WrittenPropvals(o, nprops) ==
    [j \in 1 .. nprops |-> Tok("propval", IF j <= Len(o.propval) THEN o.propval[j] ELSE <<>>)]

\* A slip: the propvals of the object's own propdefs only are counted.
ng_write_object_own_props(st, oid) ==
    IF dbpriv_find_object(st, oid) = NULL THEN <<Tok("#%d recycled", oid)>>
    ELSE LET o == st[oid + 1]
         IN  <<Tok("#%d", oid), Tok("str", o.name), Tok("num", o.flags), Tok("num", o.owner)>>
             \o dbio_write_var(o.location) \o dbio_write_var(o.contents)
             \o dbio_write_var(o.parents) \o dbio_write_var(o.children)
             \o <<Tok("num", Len(o.verbdefs))>>
             \o [j \in 1 .. Len(o.verbdefs) |-> write_verbdef(o.verbdefs[j])]
             \o <<Tok("num", Len(o.propdefs))>>
             \o [j \in 1 .. Len(o.propdefs) |-> Tok("propdef", o.propdefs[j])]
             \o <<Tok("num", Len(o.propdefs))>>
             \o WrittenPropvals(o, Len(o.propdefs))

\* ng_write_object(oid)
ng_write_object(st, oid) ==
    IF dbpriv_find_object(st, oid) = NULL THEN <<Tok("#%d recycled", oid)>>
    ELSE LET o == st[oid + 1]
         IN  <<Tok("#%d", oid), Tok("str", o.name), Tok("num", o.flags), Tok("num", o.owner)>>
             \o dbio_write_var(o.location) \o dbio_write_var(o.contents)
             \o dbio_write_var(o.parents) \o dbio_write_var(o.children)
             \o <<Tok("num", Len(o.verbdefs))>>
             \o [j \in 1 .. Len(o.verbdefs) |-> write_verbdef(o.verbdefs[j])]
             \o <<Tok("num", Len(o.propdefs))>>
             \o [j \in 1 .. Len(o.propdefs) |-> Tok("propdef", o.propdefs[j])]
             \o <<Tok("num", dbpriv_count_properties(st, oid))>>
             \o WrittenPropvals(o, dbpriv_count_properties(st, oid))

\* write_db_file: the header line with the version, the number of objects
\* max_oid + 1 and nprogs, ng_write_object for 0 .. max_oid, then the verb
\* programs, the task queue and the connections.
RECURSIVE WriteObjects(_, _)
WriteObjects(st, oid) ==
    IF oid >= Len(st) THEN <<>> ELSE ng_write_object(st, oid) \o WriteObjects(st, oid + 1)

write_db_file(st) ==
    <<Tok("version", DBV_NextGen), Tok("num", Len(st)), Tok("num", CountPrograms(st))>>
        \o WriteObjects(st, 0) \o AfterObjects(st)

\* Reading: a reader is the text still to read and what it has read so far.
\* dbio_read_var: the type, then the value or the length and the elements.
RECURSIVE dbio_read_var(_)
dbio_read_var(text) ==
    IF text[1].v = "TYPE_LIST"
    THEN LET RECURSIVE Elements(_, _, _)
             Elements(n, t, acc) ==
                 IF n = 0 THEN [val |-> List(acc), rest |-> t]
                 ELSE LET e == dbio_read_var(t)
                      IN  Elements(n - 1, e.rest, Append(acc, e.val))
         IN  Elements(text[2].v, SubSeq(text, 3, Len(text)), <<>>)
    ELSE [val |-> [type |-> text[1].v, v |-> text[2].v], rest |-> SubSeq(text, 3, Len(text))]

\* The n values of one kind that follow a count: the verbdefs, the propdefs,
\* the propvals.
ReadCounted(text) ==
    [val |-> [j \in 1 .. text[1].v |->
                 IF text[j + 1].k = "verbdef" THEN read_verbdef(text[j + 1])
                 ELSE text[j + 1].v],
     rest |-> SubSeq(text, text[1].v + 2, Len(text))]

\* A version 4 file's block for slot oid of the table objs, token by token
\* as v4_read_object takes it: "#oid recycled", or "#oid", the name, the old
\* handles string, flags, owner, location, contents, next, parent, child,
\* sibling, the verbdefs, the propdefs and the propvals, each after its count.
LegacyBlock(objs, oid) ==
    IF dbv4_find_object(objs, oid) = NULL THEN <<Tok("#%d recycled", oid)>>
    ELSE LET o == objs[oid + 1]
         IN  <<Tok("#%d", oid), Tok("str", o.name), Tok("str", ""), Tok("num", o.flags),
               Tok("num", o.owner), Tok("num", o.location), Tok("num", o.contents),
               Tok("num", o.next), Tok("num", o.parent), Tok("num", o.child),
               Tok("num", o.sibling)>>
             \o <<Tok("num", Len(o.verbdefs))>>
             \o [j \in 1 .. Len(o.verbdefs) |-> write_verbdef(o.verbdefs[j])]
             \o <<Tok("num", Len(o.propdefs))>>
             \o [j \in 1 .. Len(o.propdefs) |-> Tok("propdef", o.propdefs[j])]
             \o <<Tok("num", Len(o.propval))>>
             \o [j \in 1 .. Len(o.propval) |-> Tok("propval", o.propval[j])]

\* v4_read_object without the comparison to dbv4_last_used_objid() + 1.
v4_read_object_any_number(objs, text) ==
    IF text = <<>> \/ text[1].k \notin {"#%d", "#%d recycled"}
    THEN [ok |-> FALSE, st |-> objs, rest |-> text]
    ELSE IF text[1].k = "#%d recycled"
    THEN [ok |-> TRUE, st |-> Append(objs, NULL), rest |-> Tail(text)]
    ELSE LET verbs == ReadCounted(SubSeq(text, 12, Len(text)))
             props == ReadCounted(verbs.rest)
             vals == ReadCounted(props.rest)
         IN  [ok |-> TRUE,
              st |-> Append(objs, [id |-> Len(objs), name |-> text[2].v, flags |-> text[4].v,
                                   owner |-> text[5].v,
                                   location |-> text[6].v, contents |-> text[7].v,
                                   next |-> text[8].v,
                                   parent |-> text[9].v, child |-> text[10].v,
                                   sibling |-> text[11].v,
                                   verbdefs |-> verbs.val, propdefs |-> props.val,
                                   propval |-> vals.val]),
              rest |-> vals.rest]

\* v4_read_object: 0 unless the block is numbered dbv4_last_used_objid() + 1
\* and the rest of its line is " recycled" or nothing; " recycled" makes an
\* empty slot of the legacy table, the other an Object4 with the fields that
\* follow.
v4_read_object(objs, text) ==
    IF text = <<>> \/ text[1].k \notin {"#%d", "#%d recycled"}
       \/ text[1].v # dbv4_last_used_objid(objs) + 1
    THEN [ok |-> FALSE, st |-> objs, rest |-> text]
    ELSE IF text[1].k = "#%d recycled"
    THEN [ok |-> TRUE, st |-> Append(objs, NULL), rest |-> Tail(text)]
    ELSE LET verbs == ReadCounted(SubSeq(text, 12, Len(text)))
             props == ReadCounted(verbs.rest)
             vals == ReadCounted(props.rest)
         IN  [ok |-> TRUE,
              st |-> Append(objs, [id |-> Len(objs), name |-> text[2].v, flags |-> text[4].v,
                                   owner |-> text[5].v,
                                   location |-> text[6].v, contents |-> text[7].v,
                                   next |-> text[8].v,
                                   parent |-> text[9].v, child |-> text[10].v,
                                   sibling |-> text[11].v,
                                   verbdefs |-> verbs.val, propdefs |-> props.val,
                                   propval |-> vals.val]),
              rest |-> vals.rest]

\* ng_read_object: 0 unless the block is numbered db_last_used_objid() + 1;
\* " recycled" makes an empty slot, anything else the object whose fields
\* follow in the order name, flags, owner, location, contents, parents,
\* children, verbdefs, propdefs, propvals.
ng_read_object(st, text) ==
    IF text = <<>> \/ text[1].k \notin {"#%d", "#%d recycled"} \/ text[1].v # Len(st)
    THEN [ok |-> FALSE, st |-> st, rest |-> text]
    ELSE IF text[1].k = "#%d recycled"
    THEN [ok |-> TRUE, st |-> Append(st, NULL), rest |-> Tail(text)]
    ELSE LET loc == dbio_read_var(SubSeq(text, 5, Len(text)))
             cont == dbio_read_var(loc.rest)
             par == dbio_read_var(cont.rest)
             chi == dbio_read_var(par.rest)
             verbs == ReadCounted(chi.rest)
             props == ReadCounted(verbs.rest)
             vals == ReadCounted(props.rest)
         IN  [ok |-> TRUE,
              st |-> Append(st, [id |-> Len(st), name |-> text[2].v, flags |-> text[3].v,
                                 owner |-> text[4].v,
                                 location |-> loc.val, contents |-> cont.val,
                                 parents |-> par.val, children |-> chi.val,
                                 verbdefs |-> verbs.val, propdefs |-> props.val,
                                 propval |-> vals.val]),
              rest |-> vals.rest]

\* The loop of read_db_file over the nobjs objects of the file, each read
\* by v4_read_object if DBV_NextGen > dbio_input_version, by ng_read_object
\* if not.
RECURSIVE ReadObjects(_, _, _, _)
ReadObjects(st, text, nobjs, legacy) ==
    IF nobjs = 0 THEN [ok |-> TRUE, st |-> st, rest |-> text]
    ELSE LET o == IF legacy THEN v4_read_object(st, text) ELSE ng_read_object(st, text)
         IN  IF ~o.ok THEN [ok |-> FALSE, st |-> st, rest |-> text]
             ELSE ReadObjects(o.st, o.rest, nobjs - 1, legacy)

\* The head of read_db_file: the version line, without which the file is of
\* DBV_Prehistory; check_db_version (the versions after DBV_NextGen, which
\* are read as it is, are left out here); the counts nobjs and nprogs.
ReadHeader(text) ==
    LET versioned == text # <<>> /\ text[1].k = "version"
        version == IF versioned THEN text[1].v ELSE DBV_Prehistory
        counts == IF versioned THEN Tail(text) ELSE text
        counted == Len(counts) >= 2 /\ counts[1].k = "num" /\ counts[2].k = "num"
    IN  [ok |-> version \in DBV_Prehistory .. DBV_NextGen /\ counted,
         version |-> version,
         nobjs |-> IF counted THEN counts[1].v ELSE 0,
         nprogs |-> IF counted THEN counts[2].v ELSE 0,
         rest |-> IF counted THEN SubSeq(counts, 3, Len(counts)) ELSE counts]


----------------------------------------------------------------------------
(* ng_validate_hierarchies *)

\* The type checks of phase 1 on one object: is_obj_or_list_of_objs(parents),
\* is_list_of_objs(children), is_obj(location), is_list_of_objs(contents).
NgTypesBroken(o) ==
    LET is_obj(v) == v.type = "TYPE_OBJ"
        is_list_of_objs(v) ==
            v.type = "TYPE_LIST" /\ \A k \in 1 .. Len(v.v) : is_obj(v.v[k])
    IN  \/ ~(is_obj(o.parents) \/ is_list_of_objs(o.parents))
        \/ ~is_list_of_objs(o.children)
        \/ ~is_obj(o.location)
        \/ ~is_list_of_objs(o.contents)

\* setremove(list, value): the list without the first element equal to value
setremove(lst, value) ==
    IF \E k \in 1 .. Len(lst) : lst[k] = value
    THEN LET i == CHOOSE k \in 1 .. Len(lst) :
                      lst[k] = value /\ \A j \in 1 .. k - 1 : lst[j] # value
         IN  SubSeq(lst, 1, i - 1) \o SubSeq(lst, i + 1, Len(lst))
    ELSE lst

\* What a read beyond the end of a list can bring: any value.  It is looked
\* at as an object number and, when that is no object of st, removed from the
\* list if it is there: so the values that make a difference are the numbers
\* of no object, and one value for all the others.
Garbage(st) ==
    {Num(MaxObjs)} \cup {Obj(r) : r \in {x \in 0 .. MaxObjs : dbpriv_find_object(st, x) = NULL}}

\* FOR_EACH(tmp, o->field, i, c) { if (invalid) o->field = setremove(o->field, tmp); }
\* The count c is taken once, before the first element; o->field is looked at
\* anew for every index i.  Once an element is removed the list is shorter
\* than c: the element that moved to index i is never looked at, and the last
\* indices lie beyond the end of the list, where the read brings garbage.
RECURSIVE ForEachRemove(_, _, _, _, _)
ForEachRemove(st, lst, i, c, garbage) ==
    IF i > c THEN lst
    ELSE LET tmp == IF i <= Len(lst) THEN lst[i] ELSE garbage
         IN  ForEachRemove(st,
                           IF tmp.v # NOTHING /\ dbpriv_find_object(st, tmp.v) = NULL
                           THEN setremove(lst, tmp) ELSE lst,
                           i + 1, c, garbage)

\* CHECK(field, name) of phase 1
NgCheck(st, v, garbage) ==
    IF v.type = "TYPE_LIST"
    THEN List(ForEachRemove(st, v.v, 1, Len(v.v), garbage))
    ELSE IF v.v # NOTHING /\ dbpriv_find_object(st, v.v) = NULL
    THEN [v EXCEPT !.v = NOTHING]
    ELSE v

\* Phase 1 from slot k on, brk being broken so far: the type checks, and as
\* long as nothing is broken the four CHECKs.
RECURSIVE NgPhase1(_, _, _, _)
NgPhase1(st, k, brk, garbage) ==
    IF k > Len(st) THEN [st |-> st, broken |-> brk]
    ELSE IF st[k] = NULL THEN NgPhase1(st, k + 1, brk, garbage)
    ELSE IF brk \/ NgTypesBroken(st[k]) THEN NgPhase1(st, k + 1, TRUE, garbage)
    ELSE NgPhase1([st EXCEPT ![k] =
                      [@ EXCEPT !.parents = NgCheck(st, @, garbage),
                                !.children = NgCheck(st, @, garbage),
                                !.location = NgCheck(st, @, garbage),
                                !.contents = NgCheck(st, @, garbage)]],
                  k + 1, FALSE, garbage)

\* broken after phase 2: CHECK(oid, db_ancestors, "parent") and
\* CHECK(oid, db_all_locations, "location")
NgPhase2Broken(st) ==
    \E k \in 1 .. Len(st) :
        /\ st[k] # NULL
        /\ \/ k - 1 \in db_ancestors(st, k - 1)
           \/ k - 1 \in db_all_locations(st, k - 1)

\* CHECK(up, up_name, down, down_name) of phase 3 for object o: the members
\* of up are gone through in order; a member that is not NOTHING is looked up
\* and its down read.  "broken" at the first member whose down lacks o (the
\* loop breaks there), "undefined" when the member is no object (otmp is null
\* and otmp->down is read), "ok" at the end of the list.
NgCheck3(st, o, up, down) ==
    LET l == enlist_var(o[up]).v
        Fails(k) == /\ l[k].v # NOTHING
                    /\ \/ dbpriv_find_object(st, l[k].v) = NULL
                       \/ o.id \notin ObjsOf(dbpriv_find_object(st, l[k].v)[down])
    IN  IF \A k \in 1 .. Len(l) : ~Fails(k) THEN "ok"
        ELSE LET i == CHOOSE k \in 1 .. Len(l) : Fails(k) /\ \A j \in 1 .. k - 1 : ~Fails(j)
             IN  IF dbpriv_find_object(st, l[i].v) = NULL THEN "undefined" ELSE "broken"

\* The outcomes of the four CHECKs of phase 3 over all objects.
NgPhase3(st) ==
    {NgCheck3(st, st[k], f[1], f[2]) :
        k \in {j \in 1 .. Len(st) : st[j] # NULL},
        f \in {<<"location", "contents">>, <<"contents", "location">>,
               <<"parents", "children">>, <<"children", "parents">>}}


----------------------------------------------------------------------------
(* read_db_file on a next-generation input, and the dump it came from *)

\* The live store of a server that kept its invariants: the store a legacy
\* table without damage is migrated to, parents held as one object or, with
\* aslist, as the list of that object (the empty list for no parent).
WellFormedStore(live, par, loc, order, aslist) ==
    LET st == v4_upgrade_objects(WellFormed4(live, par, loc, order))
    IN  [k \in 1 .. Len(st) |->
            IF st[k] = NULL \/ ~aslist THEN st[k]
            ELSE [st[k] EXCEPT !.parents =
                     IF @.v = NOTHING THEN List(<<>>) ELSE List(<<@>>)]]

\* A store as ng_read_object builds it from a file with damage: the objects
\* of live exist; es says, entry by entry, which object's which field holds
\* which number (a list field holds its entries in their order; "parent"
\* names parents held as one object).
DamagedStore(live, es) ==
    LET Picked(oid, field) ==
            LET sel == SelectSeq(es, LAMBDA e : e[1] = oid /\ e[2] = field)
            IN  [k \in 1 .. Len(sel) |-> Obj(sel[k][3])]
        Last(seq) == IF seq = <<>> THEN Obj(NOTHING) ELSE seq[Len(seq)]
    IN  [k \in 1 .. MaxObjs |->
            IF k - 1 \notin live THEN NULL
            ELSE Upgraded(Unlinked4(k - 1), k - 1,
                          IF Picked(k - 1, "parents") # <<>>
                          THEN List(Picked(k - 1, "parents"))
                          ELSE Last(Picked(k - 1, "parent")),
                          List(Picked(k - 1, "children")),
                          Last(Picked(k - 1, "location")),
                          List(Picked(k - 1, "contents")))]

\* A store one field of which has the wrong type.
MistypedStore(live, oid, field, v) ==
    [k \in 1 .. MaxObjs |->
        IF k - 1 \notin live THEN NULL
        ELSE LET o == Upgraded(Unlinked4(k - 1), k - 1,
                               Obj(NOTHING), List(<<>>), Obj(NOTHING), List(<<>>))
             IN  IF k - 1 = oid THEN [o EXCEPT ![field] = v] ELSE o]

\* The server is about to dump its store, which is as it should be.
DumpInit ==
    /\ \E live \in SUBSET Objids :
         \E par \in Forests(live), loc \in Forests(live) :
             \E order \in Orders(live, loc = par) :
                 \/ store = WithPrograms(WellFormedStore(live, par, loc, order, FALSE))
                 \/ loc = par
                    /\ store = WithPrograms(WellFormedStore(live, par, loc, order, TRUE))
    /\ load_pc = "write_db_file"
    /\ dbio = <<>>
    /\ nprogs = 0

\* read_db_file has read the objects of a file some other way made and is
\* about to call ng_validate_hierarchies.  The damage is in the fields of
\* #0 and #1, which may name any object.
DamagedInit ==
    /\ \E live \in SUBSET Objids :
         \/ \E fields \in {{"parents", "parent", "children"}, {"location", "contents"}} :
                \E n \in 0 .. MaxLinks :
                    \E es \in [1 .. n -> (live \cap {0, 1}) \X fields \X (0 .. MaxObjs)] :
                        \* the entries of one object together (their order
                        \* matters within a list only)
                        /\ \A i, j \in 1 .. n : i < j => es[i][1] <= es[j][1]
                        /\ store = DamagedStore(live, es)
         \/ \E oid \in live, field \in {"parents", "children", "location", "contents"},
               v \in {Num(0), List(<<Num(0)>>), Obj(0), List(<<>>)} :
                store = MistypedStore(live, oid, field, v)
    /\ load_pc = "phase_1"
    /\ dbio = AfterObjects(WithPrograms(store))
    /\ nprogs = CountPrograms(WithPrograms(store))

NgLoadInit ==
    /\ DumpInit \/ DamagedInit
    /\ dbio_input_version = DBV_NextGen
    /\ objects = <<>>
    /\ broken = 0
    /\ fixed_nexts = 0
    /\ DumpIdle
    /\ ExecIdle

\* write_db_file(reason): the store goes to the dbio stream.
NgWriteDbFile ==
    /\ load_pc = "write_db_file"
    /\ dbio' = write_db_file(store)
    /\ load_pc' = "read_db_file"
    /\ UNCHANGED <<store, dbio_input_version, objects, broken, fixed_nexts, nprogs,
                   dumpVars, execVars>>

\* read_db_file in a server started on a file: the version is unknown or
\* the counts are missing, and it returns 0.
BadHeader ==
    /\ load_pc = "read_db_file"
    /\ ~ReadHeader(dbio).ok
    /\ dbio_input_version' = ReadHeader(dbio).version
    /\ load_pc' = "failed"
    /\ UNCHANGED <<store, objects, broken, fixed_nexts, dbio, nprogs, dumpVars, execVars>>

\* read_db_file on a file of a version below DBV_NextGen: the header, then
\* v4_read_object nobjs times into the empty legacy table.
V4ReadObjects ==
    /\ load_pc = "read_db_file"
    /\ ReadHeader(dbio).ok
    /\ IsLegacy(ReadHeader(dbio).version)
    /\ LET header == ReadHeader(dbio)
           read == ReadObjects(<<>>, header.rest, header.nobjs, TRUE)
       IN  /\ dbio_input_version' = header.version
           /\ nprogs' = header.nprogs
           /\ objects' = read.st
           /\ dbio' = read.rest
           /\ load_pc' = IF read.ok THEN "phase_1" ELSE "failed"
    /\ UNCHANGED <<store, broken, fixed_nexts, dumpVars, execVars>>

\* read_db_file in a server started on a next-generation file: the header,
\* then ng_read_object nobjs times into an empty store.
NgReadObjects ==
    /\ load_pc = "read_db_file"
    /\ ReadHeader(dbio).ok
    /\ ~IsLegacy(ReadHeader(dbio).version)
    /\ LET header == ReadHeader(dbio)
           read == ReadObjects(<<>>, header.rest, header.nobjs, FALSE)
       IN  /\ dbio_input_version' = header.version
           /\ nprogs' = header.nprogs
           /\ store' = read.st
           /\ dbio' = read.rest
           /\ load_pc' = IF read.ok THEN "phase_1" ELSE "failed"
    /\ UNCHANGED <<objects, broken, fixed_nexts, dumpVars, execVars>>

\* Phase 1: Check for invalid objects; if (broken) return 0.  What a read
\* beyond the end of a list brings matters only once something was removed.
NgValidatePhase1 ==
    /\ load_pc = "phase_1"
    /\ ~IsLegacy(dbio_input_version)
    /\ \E garbage \in IF NgPhase1(store, 1, FALSE, Num(MaxObjs)).st = store
                      THEN {Num(MaxObjs)} ELSE Garbage(store) :
         LET after == NgPhase1(store, 1, FALSE, garbage)
         IN  /\ store' = after.st
             /\ broken' = IF after.broken THEN 1 ELSE 0
             /\ load_pc' = IF after.broken THEN "failed" ELSE "phase_2"
    /\ UNCHANGED <<dbio_input_version, objects, fixed_nexts, dbio, nprogs, dumpVars, execVars>>

\* Phase 2: Check for cycles; if (broken) return 0
NgValidatePhase2 ==
    /\ load_pc = "phase_2"
    /\ ~IsLegacy(dbio_input_version)
    /\ broken' = IF NgPhase2Broken(store) THEN 1 ELSE 0
    /\ load_pc' = IF NgPhase2Broken(store) THEN "failed" ELSE "phase_3"
    /\ UNCHANGED <<store, dbio_input_version, objects, fixed_nexts, dbio, nprogs,
                   dumpVars, execVars>>

\* Phase 3: Check for inconsistencies; return !broken.  Where a CHECK reads
\* through a null otmp the behaviour is undefined: the server ends there, or
\* goes on with either answer.
NgValidatePhase3 ==
    /\ load_pc = "phase_3"
    /\ ~IsLegacy(dbio_input_version)
    /\ LET outcomes == NgPhase3(store)
       IN  \E b \in IF "undefined" \in outcomes THEN {0, 1, 2}
                    ELSE IF "broken" \in outcomes THEN {1} ELSE {0} :
               /\ broken' = IF b = 2 THEN broken ELSE b
               /\ load_pc' = CASE b = 0 -> "programs" [] b = 1 -> "failed" [] b = 2 -> "crashed"
    /\ UNCHANGED <<store, dbio_input_version, objects, fixed_nexts, dbio, nprogs,
                   dumpVars, execVars>>

NgLoadSpec ==
    /\ NgLoadInit
    /\ [][\/ NgWriteDbFile
         \/ NgReadObjects
         \/ NgValidatePhase1
         \/ NgValidatePhase2
         \/ NgValidatePhase3
         \/ ReadVerbPrograms
         \/ ReadRest]_vars


----------------------------------------------------------------------------
(* Claims about dump and load *)

\* The step in which a server reads the objects of the file another wrote.
ReadsDump == load_pc = "read_db_file" /\ load_pc' # "read_db_file"

\* The store st with no program bound to any verb.
WithoutPrograms(st) ==
    [k \in 1 .. Len(st) |->
        IF st[k] = NULL THEN NULL
        ELSE [st[k] EXCEPT !.verbdefs =
                 [j \in 1 .. Len(st[k].verbdefs) |->
                     [st[k].verbdefs[j] EXCEPT !.program = <<>>]]]]

(* C11: loading the file made by dumping a store that satisfies the
   invariants gives a store equal to it in every field: the same high-water
   mark, the same slots recycled, and for every object the same name, flags,
   owner, location, contents, parents, children (in order), verbdefs, propdefs
   and propvals, as many propvals being read back as were written.  The
   objects are read back with no program bound; the programs are bound as
   they were once the verb programs are read. *)
C11_LoadOfDumpIsTheStore ==
    [][/\ ReadsDump =>
           /\ load_pc' = "phase_1"
           /\ store' = WithoutPrograms(store)
           /\ nprogs' = CountPrograms(store)
           /\ \A k \in 1 .. Len(store) :
                  store[k] # NULL =>
                      Len(store'[k].propval) = dbpriv_count_properties(store, k - 1)
       /\ (load_pc = "programs" /\ load_pc' # load_pc) =>
           /\ load_pc' = "queues"
           /\ store' = WithPrograms(store)]_vars

\* A store read back from its dump: slot 1 recycled, #0 with the child #2,
\* which holds its parent as a list and the propvals of its parent and its
\* own; of its two verbs the second has its program again, the first none.
C11_Witness ==
    /\ load_pc = "queues"
    /\ Len(dbio) = 1
    /\ store[2] = NULL
    /\ store[1] # NULL /\ store[3] # NULL
    /\ store[3].parents = List(<<Obj(0)>>)
    /\ store[1].children = ObjList(<<2>>)
    /\ Len(store[3].propval) = 2
    /\ store[3].verbdefs[1].program = <<>>
    /\ store[3].verbdefs[2].program = <<"program", 2, 1>>

----------------------------------------------------------------------------
(* read_db_file on either kind of input *)

LoadSpec ==
    /\ LegacyLoadInit \/ NgLoadInit
    /\ [][\/ V4ValidatePhase1
         \/ V4ValidatePhase2
         \/ V4ValidatePhase3
         \/ V4Upgrade
         \/ NgWriteDbFile
         \/ NgReadObjects
         \/ NgValidatePhase1
         \/ NgValidatePhase2
         \/ NgValidatePhase3
         \/ ReadVerbPrograms
         \/ ReadRest]_vars

----------------------------------------------------------------------------
(* read_db_file from the first line of a file *)

\* The files a server is started on: with a version line (version 4,
\* DBV_NextGen, or a version the server does not know) or without one, then
\* the counts, MaxObjs blocks of objects without links, some of them
\* recycled, the verb programs, the task queue and the connections.  A file
\* is as a server writes it; or the first line of its block number at holds
\* the number n, or text after the number that is not " recycled"; or, #0
\* being recycled, the verb programs are MaxProgs blocks at most, each for
\* any object and any verb number.
FileInit ==
    /\ \E live \in SUBSET Objids,
          version \in {DBV_Prehistory, DBV_BFBugFixed, DBV_NextGen, DBV_NextGen + 1} :
         LET legacy == IsLegacy(version)
             head == IF version = DBV_Prehistory THEN <<>> ELSE <<Tok("version", version)>>
             tbl == [k \in 1 .. MaxObjs |->
                        IF k - 1 \notin live THEN NULL
                        ELSE IF legacy THEN Unlinked4(k - 1)
                        ELSE Upgraded(Unlinked4(k - 1), k - 1,
                                      Obj(NOTHING), List(<<>>), Obj(NOTHING), List(<<>>))]
             Block(k) == IF legacy THEN LegacyBlock(tbl, k - 1) ELSE ng_write_object(tbl, k - 1)
             RECURSIVE Blocks(_, _, _, _)
             Blocks(k, at, n, junk) ==
                 IF k > MaxObjs THEN <<>>
                 ELSE (IF k # at THEN Block(k)
                       ELSE <<Tok(IF junk THEN "#%d recycle" ELSE Block(k)[1].k, n)>>
                            \o Tail(Block(k)))
                      \o Blocks(k + 1, at, n, junk)
         IN  \/ \E at \in 1 .. MaxObjs, n \in 0 .. MaxObjs, junk \in BOOLEAN :
                    dbio = head
                           \o <<Tok("num", MaxObjs), Tok("num", CountPrograms(WithPrograms(tbl)))>>
                           \o Blocks(1, at, n, junk)
                           \o AfterObjects(WithPrograms(tbl))
             \/ /\ live = Objids \ {0}
                /\ version \in {DBV_BFBugFixed, DBV_NextGen}
                /\ \E progs \in UNION {[1 .. n -> ((0 - 1) .. MaxObjs) \X ((0 - 1) .. 2)] :
                                           n \in 0 .. MaxProgs} :
                       dbio = head
                              \o <<Tok("num", MaxObjs), Tok("num", Len(progs))>>
                              \o Blocks(1, 0, 0, FALSE)
                              \o [j \in 1 .. 2 * Len(progs) |->
                                     IF j % 2 = 1 THEN Tok("#%d:%d", progs[(j + 1) \div 2])
                                     ELSE Tok("program", <<"program", j \div 2>>)]
                              \o <<Tok("tasks, connections", 0)>>
    /\ load_pc = "read_db_file"
    /\ store = <<>>
    /\ objects = <<>>
    /\ dbio_input_version = 0
    /\ nprogs = 0
    /\ broken = 0
    /\ fixed_nexts = 0
    /\ DumpIdle
    /\ ExecIdle

\* read_db_file on these files and on the file a server has just dumped,
\* and from the validator on for the damaged inputs in which no object is
\* recycled.
ReadSpec ==
    /\ \/ FileInit
       \/ NgLoadInit /\ (load_pc = "write_db_file" \/ \A k \in 1 .. Len(store) : store[k] # NULL)
       \/ LegacyLoadInit /\ \A k \in 1 .. Len(objects) : objects[k] # NULL
    /\ [][\/ BadHeader
         \/ V4ReadObjects
         \/ V4ValidatePhase1
         \/ V4ValidatePhase2
         \/ V4ValidatePhase3
         \/ V4Upgrade
         \/ NgWriteDbFile
         \/ NgReadObjects
         \/ NgValidatePhase1
         \/ NgValidatePhase2
         \/ NgValidatePhase3
         \/ ReadVerbPrograms
         \/ ReadRest]_vars

----------------------------------------------------------------------------
(* Claims about the validators *)

Live4(objs) == {o \in 0 .. Len(objs) - 1 : objs[o + 1] # NULL}
LiveNg(st) == {o \in 0 .. Len(st) - 1 : st[o + 1] # NULL}

\* The paths of a relation over S, succ[o] being the successors of o: in a
\* path p, p[k + 1] is a successor of p[k].  Paths of up to n objects that
\* extend those of P; all the paths without more objects than S has.
RECURSIVE PathsUpTo(_, _, _, _)
PathsUpTo(S, succ, P, n) ==
    IF n = 0 THEN {}
    ELSE P \cup PathsUpTo(S, succ,
                          UNION {{Append(p, y) : y \in succ[p[Len(p)]] \cap S} : p \in P},
                          n - 1)

PathsOf(S, succ) == PathsUpTo(S, succ, {<<o>> : o \in S}, Cardinality(S))

\* The relation has a cycle: a path whose last object leads to its first.
HasCycle(S, succ) ==
    \E p \in PathsOf(S, succ) : p[1] \in succ[p[Len(p)]]

\* A cycle in the parent relation or in the location relation
UpCycle4(objs) ==
    \/ HasCycle(Live4(objs), [o \in Live4(objs) |-> {objs[o + 1].parent}])
    \/ HasCycle(Live4(objs), [o \in Live4(objs) |-> {objs[o + 1].location}])

UpCycleNg(st) ==
    \/ HasCycle(LiveNg(st), [o \in LiveNg(st) |-> ObjsOf(st[o + 1].parents)])
    \/ HasCycle(LiveNg(st), [o \in LiveNg(st) |-> ObjsOf(st[o + 1].location)])

\* The child list or the contents list of some object never ends: the path
\* of sibling (next) links from its first child (content) comes back to an
\* object of the path.
DownCycle4(objs) ==
    \/ \E p \in PathsOf(Live4(objs), [x \in Live4(objs) |-> {objs[x + 1].sibling}]) :
           /\ \E o \in Live4(objs) : p[1] = objs[o + 1].child
           /\ \E k \in 1 .. Len(p) : p[k] = objs[p[Len(p)] + 1].sibling
    \/ \E p \in PathsOf(Live4(objs), [x \in Live4(objs) |-> {objs[x + 1].next}]) :
           /\ \E o \in Live4(objs) : p[1] = objs[o + 1].contents
           /\ \E k \in 1 .. Len(p) : p[k] = objs[p[Len(p)] + 1].next

Phase2Step == load_pc = "phase_2" /\ load_pc' # load_pc

\* C12 (as stated): in both validators phase 2 fails exactly when the store
\* that passed phase 1 has a cycle in the parent relation or in the location
\* relation.
C12_FailsOnParentOrLocationCycle ==
    [][Phase2Step =>
          (load_pc' = "failed" <=>
               IF IsLegacy(dbio_input_version) THEN UpCycle4(objects)
               ELSE UpCycleNg(store))]_vars

\* C12 (amended): phase 2 fails exactly when one of the chains it walks has a
\* cycle: in the next-generation validator the parent relation and the
\* location relation, in the version 4 validator these two and also the
\* child/sibling chain and the contents/next chain of every object.  So a
\* cycle of parents or of locations always fails, in both.
C12_FailsOnCycleOfAWalkedChain ==
    [][Phase2Step =>
          (load_pc' = "failed" <=>
               IF IsLegacy(dbio_input_version)
               THEN UpCycle4(objects) \/ DownCycle4(objects)
               ELSE UpCycleNg(store))]_vars

\* Phase 2 of the version 4 validator has failed on a table whose parents
\* and locations have no cycle: a list of children or of contents loops.
C12_Witness ==
    /\ load_pc = "failed"
    /\ IsLegacy(dbio_input_version)
    /\ broken = 1
    /\ ~UpCycle4(objects)
    /\ DownCycle4(objects)

----------------------------------------------------------------------------
(* The validators as wholes, run and run again *)

\* v4_validate_hierarchies(): the table it leaves, the count of the next
\* pointers it nulled, and what it returns (!broken, or 0 after phase 2).
v4_validate_hierarchies(objs) ==
    LET after == V4Phase1(objs)
        brk == IF V4Phase2Broken(after) THEN TRUE ELSE V4Phase3Broken(after)
    IN  [objects |-> after,
         fixed_nexts |-> V4FixedNexts(objs),
         ret |-> IF brk THEN 0 ELSE 1]

\* ng_validate_hierarchies(): the stores it can leave and what it returns
\* with each; ended is for the server ending in phase 3 on a null otmp.
ng_validate_hierarchies(st) ==
    UNION {LET after == NgPhase1(st, 1, FALSE, garbage)
               Returns(rets) == {[store |-> after.st, ret |-> r[1], ended |-> r[2]] : r \in rets}
           IN  IF after.broken \/ NgPhase2Broken(after.st) THEN Returns({<<0, FALSE>>})
               ELSE IF "undefined" \in NgPhase3(after.st)
               THEN Returns({<<0, FALSE>>, <<1, FALSE>>, <<0, TRUE>>})
               ELSE IF "broken" \in NgPhase3(after.st) THEN Returns({<<0, FALSE>>})
               ELSE Returns({<<1, FALSE>>}) :
           garbage \in IF NgPhase1(st, 1, FALSE, Num(MaxObjs)).st = st
                       THEN {Num(MaxObjs)} ELSE Garbage(st)}

\* The validator of a version 4 input is run, on the table as read and then
\* on the table a run that passed has left.
V4Validate ==
    /\ load_pc \in {"phase_1", "validated"}
    /\ IsLegacy(dbio_input_version)
    /\ LET r == v4_validate_hierarchies(objects)
       IN  /\ objects' = r.objects
           /\ fixed_nexts' = r.fixed_nexts
           /\ broken' = 1 - r.ret
           /\ load_pc' = IF r.ret = 0 THEN "failed"
                         ELSE IF load_pc = "phase_1" THEN "validated"
                         ELSE "validated_again"
    /\ UNCHANGED <<store, dbio_input_version, dbio, nprogs, dumpVars, execVars>>

\* The same for the validator of a next-generation input.
NgValidate ==
    /\ load_pc \in {"phase_1", "validated"}
    /\ ~IsLegacy(dbio_input_version)
    /\ \E r \in ng_validate_hierarchies(store) :
           /\ store' = r.store
           /\ broken' = 1 - r.ret
           /\ load_pc' = IF r.ended THEN "crashed"
                         ELSE IF r.ret = 0 THEN "failed"
                         ELSE IF load_pc = "phase_1" THEN "validated"
                         ELSE "validated_again"
    /\ UNCHANGED <<dbio_input_version, objects, fixed_nexts, dbio, nprogs, dumpVars, execVars>>

ValidateSpec ==
    /\ LegacyLoadInit \/ (NgLoadInit /\ load_pc = "phase_1")
    /\ [][V4Validate \/ NgValidate]_vars

\* C13: a second run of the validator on the store a first passing run has
\* left repairs nothing (no field changes, nothing leaves a list, the count
\* of nulled next pointers is 0) and reports no error.
C13_SecondRunDoesNothing ==
    [][load_pc = "validated" /\ load_pc' # load_pc =>
          /\ objects' = objects
          /\ store' = store
          /\ fixed_nexts' = 0
          /\ load_pc' = "validated_again"]_vars

\* The up and down links of a legacy table agree: every object is on the
\* child list of its parent and on the contents list of its location, and
\* every object on a child list or contents list points back to its owner.
LinksAgree4(objs) ==
    \A o \in Live4(objs) :
        LET Agree(up, down, across) ==
                /\ objs[o + 1][up] # NOTHING =>
                       \E k \in 1 .. Len(Chain4(objs, objs[objs[o + 1][up] + 1][down], across).ids) :
                           Chain4(objs, objs[objs[o + 1][up] + 1][down], across).ids[k] = o
                /\ \A k \in 1 .. Len(Chain4(objs, objs[o + 1][down], across).ids) :
                       objs[Chain4(objs, objs[o + 1][down], across).ids[k] + 1][up] = o
        IN  Agree("parent", "child", "sibling") /\ Agree("location", "contents", "next")

\* The same of a store: o is in the children of each of its parents, each
\* of its children has o among its parents, o is in the contents of its
\* location, each of its contents has o as location.
LinksAgreeNg(st) ==
    \A o \in LiveNg(st) :
        LET In(up, down) ==
                \A p \in ObjsOf(st[o + 1][up]) \ {NOTHING} :
                    /\ p \in LiveNg(st)
                    /\ o \in ObjsOf(st[p + 1][down])
        IN  /\ In("parents", "children")
            /\ In("children", "parents")
            /\ In("location", "contents")
            /\ In("contents", "location")

\* C14: phase 3 of either validator passes exactly when the up and down
\* links agree in both directions, and after a successful load the links of
\* the live store agree.
C14_Phase3PassesIffLinksAgree ==
    /\ [](load_pc = "loaded" => LinksAgreeNg(store))
    /\ [][load_pc = "phase_3" /\ load_pc' # load_pc =>
             (load_pc' = "programs" <=>
                  IF IsLegacy(dbio_input_version) THEN LinksAgree4(objects)
                  ELSE LinksAgreeNg(store))]_vars

----------------------------------------------------------------------------
(* The exec facility: bf_exec, exec_waiter_suspender, exec_waiter_enumerator,
   exec_completed *)

MaxExecs == 2         \* calls of exec() in a behaviour
MaxPid == 2           \* the process ids fork() hands out: 1 .. MaxPid
BufSize == 1000       \* char buffer[1000]

Pids == 1 .. MaxPid
\* What read() on a pipe returns: -1, or the bytes read (one, or as many as
\* asked for).
Reads == {0 - 1, 1, BufSize}

\* The descriptors of one call of bf_exec: the two ends of its three pipes,
\* each "none" (pipe() not called or failed), "open", "closed", or
\* "closed again" / "bad" when close() was handed a descriptor not open.
PipeEnds == {"pipeIn", "pipeOut", "pipeErr"} \X {0, 1}
NoEnds == [e \in PipeEnds |-> "none"]
pipe(f, name) == [e \in PipeEnds |-> IF e[1] = name THEN "open" ELSE f[e]]
close(f, e) ==
    [f EXCEPT ![e] = CASE @ = "open" -> "closed"
                       [] @ = "closed" -> "closed again"
                       [] OTHER -> "bad"]

RECURSIVE CloseEach(_, _)
CloseEach(f, ends) ==
    IF ends = <<>> THEN f ELSE CloseEach(close(f, Head(ends)), Tail(ends))

\* Closing the output ends of a waiter only
CloseWaiterOutErr(fdt, tw) ==
    [fdt EXCEPT ![tw.in[1]] = CloseEach(@, <<tw.out[2], tw.err[2]>>)]

\* close(tw->in); close(tw->out); close(tw->err) in the table of all calls
CloseWaiter(fdt, tw) ==
    [fdt EXCEPT ![tw.in[1]] = CloseEach(@, <<tw.in[2], tw.out[2], tw.err[2]>>)]

\* The argument lists exec() is called with here: the empty list, lists
\* with an argument that is no string, and commands that are "..ls", "l/.s",
\* "ls", "/ls" and ".ls", a string being the sequence of its characters.
Arglists ==
    LET Str(chars) == [type |-> "TYPE_STR", v |-> chars]
        ls == <<"l", "s">>
    IN  {<<>>,
         <<Num(0)>>,
         <<Str(ls), Num(0)>>,
         <<Str(<<".", ".">> \o ls)>>,
         <<Str(<<"l", "/", ".", "s">>)>>,
         <<Str(ls)>>,
         <<Str(<<"/">> \o ls), Str(<<".", ".">>)>>,
         <<Str(<<".">> \o ls)>>}

\* A slip: only the start of the command is tested.
StartsWithDotDot(cmd) == 1 < Len(cmd) /\ cmd[1] = "." /\ cmd[2] = "."

\* 1 < strlen(cmd) && '.' == cmd[0] && '.' == cmd[1], or strstr(cmd, "/.")
InvalidPath(cmd) ==
    \/ 1 < Len(cmd) /\ cmd[1] = "." /\ cmd[2] = "."
    \/ \E i \in 1 .. Len(cmd) - 1 : cmd[i] = "/" /\ cmd[i + 1] = "."

\* bf_exec(arglist, ...), call number k: bin holds the files of BIN_SUBDIR,
\* by their paths below it; fails names the pipe() call that fails, if one
\* does; p is what fork() returns in the server.  The descriptors it leaves,
\* the package it returns, the waiter it has allocated, and the system calls
\* it has made with their results.
bf_exec(k, arglist, bin, fails, p) ==
    LET In == pipe(NoEnds, "pipeIn")
        Out == pipe(In, "pipeOut")
        Err == pipe(Out, "pipeErr")
        cmd == arglist[1].v
        \* BIN_SUBDIR, then cmd without its leading '/'
        path == IF cmd # <<>> /\ cmd[1] = "/" THEN Tail(cmd) ELSE cmd
        raise(code, msg) == [kind |-> "BI_RAISE", code |-> code, msg |-> msg]
        Sys(st, pi, po, pe, fk) ==
            [stat |-> st, pipeIn |-> pi, pipeOut |-> po, pipeErr |-> pe, fork |-> fk]
    IN  IF \E i \in 1 .. Len(arglist) : arglist[i].type # "TYPE_STR"
        THEN [fds |-> NoEnds, pack |-> raise("E_INVARG", ""), tw |-> NULL,
              sys |-> Sys("none", "none", "none", "none", "none")]
        ELSE IF Len(arglist) = 0
        THEN [fds |-> NoEnds, pack |-> raise("E_ARGS", ""), tw |-> NULL,
              sys |-> Sys("none", "none", "none", "none", "none")]
        ELSE IF InvalidPath(cmd)
        THEN [fds |-> NoEnds, pack |-> raise("E_INVARG", "Invalid path"), tw |-> NULL,
              sys |-> Sys("none", "none", "none", "none", "none")]
        ELSE IF path \notin bin
        THEN [fds |-> NoEnds, pack |-> raise("E_INVARG", "Does not exist"), tw |-> NULL,
              sys |-> Sys("failed", "none", "none", "none", "none")]
        ELSE IF fails = "pipeIn"
        THEN [fds |-> NoEnds, pack |-> raise("E_EXEC", "Exec failed"), tw |-> NULL,
              sys |-> Sys("ok", "failed", "none", "none", "none")]
        ELSE IF fails = "pipeOut"
        THEN [fds |-> CloseEach(In, <<<<"pipeIn", 0>>, <<"pipeIn", 1>>>>),
              pack |-> raise("E_EXEC", "Exec failed"), tw |-> NULL,
              sys |-> Sys("ok", "ok", "failed", "none", "none")]
        ELSE IF fails = "pipeErr"
        THEN [fds |-> CloseEach(Out, <<<<"pipeIn", 0>>, <<"pipeIn", 1>>,
                                       <<"pipeOut", 0>>, <<"pipeOut", 1>>>>),
              pack |-> raise("E_EXEC", "Exec failed"), tw |-> NULL,
              sys |-> Sys("ok", "ok", "ok", "failed", "none")]
        ELSE IF p < 0
        THEN [fds |-> CloseEach(Err, <<<<"pipeIn", 0>>, <<"pipeIn", 1>>,
                                       <<"pipeOut", 0>>, <<"pipeOut", 1>>,
                                       <<"pipeErr", 0>>, <<"pipeErr", 1>>>>),
              pack |-> raise("E_EXEC", "Exec failed"), tw |-> NULL,
              sys |-> Sys("ok", "ok", "ok", "ok", "failed")]
        ELSE [fds |-> CloseEach(Err, <<<<"pipeIn", 0>>, <<"pipeOut", 1>>, <<"pipeErr", 1>>>>),
              pack |-> [kind |-> "BI_SUSPEND", code |-> "E_NONE", msg |-> ""],
              tw |-> [p |-> p, in |-> <<k, <<"pipeIn", 1>>>>, out |-> <<k, <<"pipeOut", 0>>>>,
                      err |-> <<k, <<"pipeErr", 0>>>>, the_vm |-> 0],
              sys |-> Sys("ok", "ok", "ok", "ok", "ok")]

\* exec_waiter_suspender(the_vm, data): HASH_ADD, the table kept in the
\* order of insertion
exec_waiter_suspender(waiters, the_vm, tw) ==
    Append(waiters, [tw EXCEPT !.the_vm = the_vm])

\* HASH_DELETE(hh, exec_waiters, tw) of the i-th waiter
HASH_DELETE(waiters, i) ==
    SubSeq(waiters, 1, i - 1) \o SubSeq(waiters, i + 1, Len(waiters))

\* The enumerator going on to the next waiter after a kill
RECURSIVE EnumerateKillingOn(_, _, _, _)
EnumerateKillingOn(waiters, i, fdt, closure) ==
    IF i > Len(waiters)
    THEN [exec_waiters |-> waiters, fds |-> fdt, ret |-> "TEA_CONTINUE", killed |-> {}]
    ELSE LET tw == waiters[i]
             tea == closure[tw.the_vm]
             on == EnumerateKillingOn(HASH_DELETE(waiters, i), i, CloseWaiter(fdt, tw), closure)
         IN  IF tea = "TEA_KILL"
             THEN [on EXCEPT !.ret = tea, !.killed = @ \cup {tw.the_vm}]
             ELSE IF tea # "TEA_CONTINUE"
             THEN [exec_waiters |-> waiters, fds |-> fdt, ret |-> tea, killed |-> {}]
             ELSE EnumerateKillingOn(waiters, i + 1, fdt, closure)

\* exec_waiter_enumerator(closure, data) from the i-th waiter on: the table
\* and the descriptors it leaves, what it returns, and the task the closure
\* killed.
RECURSIVE Enumerate(_, _, _, _)
Enumerate(waiters, i, fdt, closure) ==
    IF i > Len(waiters)
    THEN [exec_waiters |-> waiters, fds |-> fdt, ret |-> "TEA_CONTINUE", killed |-> {}]
    ELSE LET tw == waiters[i]
             tea == closure[tw.the_vm]
         IN  IF tea = "TEA_KILL"
             THEN [exec_waiters |-> HASH_DELETE(waiters, i), fds |-> CloseWaiter(fdt, tw),
                   ret |-> tea, killed |-> {tw.the_vm}]
             ELSE IF tea # "TEA_CONTINUE"
             THEN [exec_waiters |-> waiters, fds |-> fdt, ret |-> tea, killed |-> {}]
             ELSE Enumerate(waiters, i + 1, fdt, closure)

\* n = read(fd, buffer, sizeof(buffer)); buffer[n] = '\0'; str_dup(buffer):
\* the first n bytes of the stream when the zero lands in the buffer.  When
\* it lands outside (n = -1, n = BufSize) the store is out of bounds and the
\* string is undefined: the server ends, or the string is anything; after
\* BufSize bytes it can also be those bytes.
ReadString(stream, n) ==
    IF n \in 0 .. BufSize - 1 THEN {[of |-> stream, len |-> n]}
    ELSE {[of |-> "garbage", len |-> 0], [of |-> "ended", len |-> 0]}
         \cup (IF n = BufSize THEN {[of |-> stream, len |-> n]} ELSE {})

\* exec_completed(p, code), the two reads returning n_out and n_err: the
\* outcomes, each with the table, the descriptors and the tasks it leaves,
\* what is returned, the task resumed with its value, and the indices n of
\* the stores buffer[n] = '\0' it has made.
exec_completed(waiters, fdt, tsk, p, code, n_out, n_err) ==
    LET found == {i \in 1 .. Len(waiters) : waiters[i].p = p}
        i == CHOOSE x \in found : \A y \in found : x <= y
        tw == waiters[i]
    IN  IF found = {}
        THEN {[exec_waiters |-> waiters, fds |-> fdt, tasks |-> tsk, ret |-> 0,
               resumed |-> <<>>, zero_at |-> <<>>, ended |-> FALSE]}
        ELSE {IF "ended" \in {so.of, se.of}
              THEN [exec_waiters |-> waiters, fds |-> fdt, tasks |-> tsk, ret |-> 0,
                    resumed |-> <<>>,
                    zero_at |-> IF so.of = "ended" THEN <<n_out>> ELSE <<n_out, n_err>>,
                    ended |-> TRUE]
              ELSE [exec_waiters |-> HASH_DELETE(waiters, i),
                    fds |-> CloseWaiter(fdt, tw),
                    tasks |-> [tsk EXCEPT ![tw.the_vm] =
                                  [@ EXCEPT !.state = "resumed", !.resumes = @ + 1]],
                    ret |-> p,
                    resumed |-> <<tw.the_vm, <<code, so, se>>>>,
                    zero_at |-> <<n_out, n_err>>,
                    ended |-> FALSE] :
              so \in ReadString("stdout", n_out), se \in ReadString("stderr", n_err)}

\* The server has called no exec() yet and has no child.
ExecInit ==
    /\ exec_waiters = <<>>
    /\ fds = <<>>
    /\ tasks = <<>>
    /\ children = [p \in Pids |-> "free"]
    /\ exec_ret = [op |-> "none"]
    /\ store = <<>>
    /\ DumpIdle
    /\ LoadIdle

\* A task calls exec(): bf_exec and, on its suspend package, the call of
\* exec_waiter_suspender that follows at once.  BIN_SUBDIR holds some of two
\* files, a pipe() call may fail, and fork() gives a process id no child
\* has, or fails.
BfExec ==
    /\ exec_ret.op # "ended"
    /\ Len(tasks) < MaxExecs
    /\ \E c \in {<<arglist, bf_exec(Len(tasks) + 1, arglist, bin, fails, p)>> :
                      arglist \in Arglists,
                      bin \in SUBSET {<<"l", "s">>, <<"l", "/", ".", "s">>},
                      fails \in {"pipeIn", "pipeOut", "pipeErr", "none"},
                      p \in {0 - 1} \cup {q \in Pids : children[q] = "free"}} :
           LET k == Len(tasks) + 1
               r == c[2]
               suspends == r.pack.kind = "BI_SUSPEND"
               p == IF suspends THEN r.tw.p ELSE 0
           IN  /\ fds' = Append(fds, r.fds)
               /\ exec_waiters' = IF suspends
                                  THEN exec_waiter_suspender(exec_waiters, k, r.tw)
                                  ELSE exec_waiters
               /\ tasks' = Append(tasks,
                                  IF suspends
                                  THEN [state |-> "suspended", p |-> p, resumes |-> 0]
                                  ELSE [state |-> "raised", p |-> 0, resumes |-> 0])
               /\ children' = IF suspends
                              THEN [children EXCEPT ![p] = "exec"] ELSE children
               /\ exec_ret' = [op |-> "bf_exec", ret |-> r.pack, args |-> c[1],
                               sys |-> r.sys]
    /\ UNCHANGED <<store, dumpVars, loadVars>>

\* The server forks a child of another kind (the checkpoint child).
OtherChild ==
    /\ exec_ret.op # "ended"
    /\ \E p \in {q \in Pids : children[q] = "free"} :
           children' = [children EXCEPT ![p] = "other"]
    /\ UNCHANGED <<exec_waiters, fds, tasks, exec_ret, store, dumpVars, loadVars>>

\* A child has exited with a code, the server has reaped it and calls
\* exec_completed with its process id.
ExecCompleted ==
    /\ exec_ret.op # "ended"
    /\ \E p \in {q \in Pids : children[q] # "free"}, code \in {0, 1} :
           \E r \in UNION {exec_completed(exec_waiters, fds, tasks, p, code, n[1], n[2]) :
                              n \in Reads \X Reads} :
               /\ exec_waiters' = r.exec_waiters
               /\ fds' = r.fds
               /\ tasks' = r.tasks
               /\ children' = [children EXCEPT ![p] = "free"]
               /\ exec_ret' = [op |-> IF r.ended THEN "ended" ELSE "exec_completed",
                               p |-> p, code |-> code, ret |-> r.ret,
                               resumed |-> r.resumed, zero_at |-> r.zero_at]
    /\ UNCHANGED <<store, dumpVars, loadVars>>

\* The scheduler walks the queued tasks with a closure that answers for
\* each; a task it answers TEA_KILL for is killed.
ExecWaiterEnumerator ==
    /\ exec_ret.op # "ended"
    /\ \E r \in {Enumerate(exec_waiters, 1, fds, closure) :
                      closure \in [{exec_waiters[i].the_vm : i \in 1 .. Len(exec_waiters)}
                                     -> {"TEA_CONTINUE", "TEA_STOP", "TEA_KILL"}]} :
               /\ exec_waiters' = r.exec_waiters
               /\ fds' = r.fds
               /\ tasks' = [k \in 1 .. Len(tasks) |->
                               IF k \in r.killed THEN [tasks[k] EXCEPT !.state = "killed"]
                               ELSE tasks[k]]
               /\ exec_ret' = [op |-> "exec_waiter_enumerator", ret |-> r.ret,
                               killed |-> r.killed]
    /\ UNCHANGED <<children, store, dumpVars, loadVars>>

ExecSpec ==
    /\ ExecInit
    /\ [][\/ BfExec
         \/ OtherChild
         \/ ExecCompleted
         \/ ExecWaiterEnumerator]_vars

----------------------------------------------------------------------------
(* Claims about the exec facility *)

\* The step is a call of exec_completed: only it takes a child away.
CompletedStep == \E q \in Pids : children[q] # "free" /\ children'[q] = "free"

\* The descriptors after the step are those before it with the three of the
\* waiter tw, which were open, closed.
ClosesThree(tw) ==
    /\ DOMAIN fds' = DOMAIN fds
    /\ \A k \in DOMAIN fds, e \in PipeEnds :
           IF <<k, e>> \in {tw.in, tw.out, tw.err}
           THEN fds[k][e] = "open" /\ fds'[k][e] = "closed"
           ELSE fds'[k][e] = fds[k][e]

\* The table after the step is the table before it without its i-th waiter.
RemovesWaiter(i) ==
    /\ Len(exec_waiters') = Len(exec_waiters) - 1
    /\ \A j \in 1 .. Len(exec_waiters') :
           exec_waiters'[j] = exec_waiters[IF j < i THEN j ELSE j + 1]

\* C18: exec_completed(p, c) with a waiter for p in the table resumes the
\* task of that waiter, once, with {c, stdout text, stderr text}, removes the
\* waiter, closes its three descriptors and returns p; with no waiter for p
\* it returns 0, resumes nothing and leaves the table; and no task is ever
\* resumed twice.
C18_CompletionResumesOnce ==
    /\ [](\A k \in DOMAIN tasks : tasks[k].resumes <= 1)
    /\ [][CompletedStep =>
             LET p == exec_ret'.p
                 keyed == {i \in 1 .. Len(exec_waiters) : exec_waiters[i].p = p}
             IN  IF keyed = {}
                 THEN /\ exec_ret'.op = "exec_completed"
                      /\ exec_ret'.ret = 0
                      /\ exec_ret'.resumed = <<>>
                      /\ tasks' = tasks
                      /\ exec_waiters' = exec_waiters
                      /\ fds' = fds
                 ELSE \E i \in keyed :
                      LET tw == exec_waiters[i]
                      IN  /\ exec_ret'.op = "exec_completed"
                          /\ exec_ret'.ret = p
                          /\ Len(exec_ret'.resumed) = 2
                          /\ exec_ret'.resumed[1] = tw.the_vm
                          /\ exec_ret'.resumed[2][1] = exec_ret'.code
                          /\ exec_ret'.resumed[2][2].of = "stdout"
                          /\ exec_ret'.resumed[2][3].of = "stderr"
                          /\ tasks[tw.the_vm].state = "suspended"
                          /\ tasks' = [tasks EXCEPT ![tw.the_vm] =
                                          [@ EXCEPT !.state = "resumed", !.resumes = 1]]
                          /\ RemovesWaiter(i)
                          /\ ClosesThree(tw)]_vars

\* The step is a walk of the enumerator in which the closure answered
\* TEA_KILL.
KillStep ==
    /\ exec_ret'.op = "exec_waiter_enumerator"
    /\ exec_ret'.ret = "TEA_KILL"
    /\ exec_waiters' # exec_waiters

\* The last task that got the process id p for its child.
LastTaskOf(p) ==
    LET of == {k \in DOMAIN tasks : tasks[k].p = p}
    IN  IF of = {} THEN 0 ELSE CHOOSE k \in of : \A j \in of : j <= k

\* C19: when the closure answers TEA_KILL for a waiter, that waiter alone
\* leaves the table and its three descriptors are closed, every other
\* waiter and descriptor is as it was, and the walk ends there (the closure
\* is asked about no further waiter, so kills no other); the killed task is
\* never resumed: exec_completed for its child returns 0 and resumes
\* nothing.
C19_KillRemovesOneWaiter ==
    /\ [][KillStep =>
             \E i \in 1 .. Len(exec_waiters) :
                 /\ exec_ret'.killed = {exec_waiters[i].the_vm}
                 /\ tasks'[exec_waiters[i].the_vm].state = "killed"
                 /\ RemovesWaiter(i)
                 /\ ClosesThree(exec_waiters[i])]_vars
    /\ [][\A k \in DOMAIN tasks : tasks[k].state = "killed" => tasks'[k] = tasks[k]]_vars
    /\ [][CompletedStep /\ LastTaskOf(exec_ret'.p) # 0 =>
             (tasks[LastTaskOf(exec_ret'.p)].state = "killed" =>
                  /\ exec_ret'.op = "exec_completed"
                  /\ exec_ret'.ret = 0
                  /\ exec_ret'.resumed = <<>>
                  /\ tasks' = tasks
                  /\ exec_waiters' = exec_waiters)]_vars

\* A task was killed while another waited, the other is still waiting, and
\* exec_completed for the child of the killed task has returned 0.
C19_Witness ==
    /\ exec_ret.op = "exec_completed"
    /\ exec_ret.ret = 0
    /\ LastTaskOf(exec_ret.p) # 0
    /\ tasks[LastTaskOf(exec_ret.p)].state = "killed"
    /\ Len(exec_waiters) = 1
    /\ tasks[exec_waiters[1].the_vm].state = "suspended"

\* C20: every waiter in the table holds three open descriptors, the ends
\* bf_exec kept of its pipes; no descriptor is open without a waiter in the
\* table that holds it, so a bf_exec that failed and a waiter that was
\* destroyed have left none open; and no descriptor was closed twice or
\* closed without being open.
C20_WaitersOwnTheOpenDescriptors ==
    /\ Len(fds) = Len(tasks)
    /\ \A i \in 1 .. Len(exec_waiters) :
           LET tw == exec_waiters[i]
           IN  /\ tw.in = <<tw.the_vm, <<"pipeIn", 1>>>>
               /\ tw.out = <<tw.the_vm, <<"pipeOut", 0>>>>
               /\ tw.err = <<tw.the_vm, <<"pipeErr", 0>>>>
               /\ \A d \in {tw.in, tw.out, tw.err} : fds[d[1]][d[2]] = "open"
               /\ tasks[tw.the_vm].state = "suspended"
    /\ \A k \in 1 .. Len(fds), e \in PipeEnds :
           /\ fds[k][e] \in {"none", "open", "closed"}
           /\ fds[k][e] = "open" =>
                  \E i \in 1 .. Len(exec_waiters) :
                      <<k, e>> \in {exec_waiters[i].in, exec_waiters[i].out, exec_waiters[i].err}
    /\ \A k \in 1 .. Len(tasks) :
           tasks[k].state \in {"resumed", "killed"} =>
               \A e \in PipeEnds : fds[k][e] = "closed"

\* One exec failed at fork() after its three pipes were made, another was
\* completed, and a third waiter is in the table or was killed.
C20_Witness ==
    /\ \E k \in 1 .. Len(tasks) :
           tasks[k].state = "raised" /\ \A e \in PipeEnds : fds[k][e] = "closed"
    /\ \E k \in 1 .. Len(tasks) : tasks[k].state \in {"resumed", "killed"}

----------------------------------------------------------------------------
(* Claims about phase 1 of v4_validate_hierarchies *)

LinkFields4 == {"parent", "child", "sibling", "location", "contents", "next"}

\* The legacy table as phase 1 has left it: phase 1 is over and the migrator
\* has not yet dropped the table.
AfterV4Phase1 ==
    /\ IsLegacy(dbio_input_version)
    /\ load_pc \in {"phase_2", "phase_3", "programs", "queues", "upgrade"}

\* C23: after phase 1 of the v4 validator every live legacy object whose
\* location is NOTHING has next = NOTHING, also when the location was made
\* NOTHING by the repair of an invalid reference in the same pass.
C23_NoNextWithoutLocation ==
    AfterV4Phase1 =>
        \A k \in 1 .. Len(objects) :
            (objects[k] # NULL /\ objects[k].location = NOTHING) =>
                objects[k].next = NOTHING

\* The four walks of phases 2 and 3 and of the migrator from every live
\* object meet live objects only.
WalksMeetLive4(objs) ==
    \A k \in 1 .. Len(objs) :
        objs[k] # NULL =>
            \A w \in {<<"parent", "parent">>, <<"child", "sibling">>,
                      <<"location", "location">>, <<"contents", "next">>} :
                SeqToSet(Chain4(objs, objs[k][w[1]], w[2]).ids) \subseteq Live4(objs)

\* What phase 1 leaves of the links, but for the clause on the links that
\* pointed to a live object: every link is NOTHING or a live object, phase 1
\* does not fail, and the walks meet live objects only.
C25_LinksAreLive ==
    /\ load_pc' = "phase_2"
    /\ broken' = 0
    /\ Len(objects') = Len(objects)
    /\ \A k \in 1 .. Len(objects) :
           /\ (objects'[k] = NULL) = (objects[k] = NULL)
           /\ objects[k] # NULL =>
                  \A f \in LinkFields4 :
                      objects'[k][f] \in Live4(objects) \cup {NOTHING}
    /\ WalksMeetLive4(objects')

\* C25 as stated: after phase 1 each of the six links of a live legacy object
\* is NOTHING or a live legacy object; a link that pointed to a live object is
\* unchanged; phase 1 does not fail; the walks meet live objects only.
C25_RepairsKeepLiveLinks ==
    [][(load_pc = "phase_1" /\ IsLegacy(dbio_input_version) /\ load_pc' # load_pc) =>
          /\ C25_LinksAreLive
          /\ \A k \in 1 .. Len(objects) :
                 objects[k] # NULL =>
                     \A f \in LinkFields4 :
                         objects[k][f] \in Live4(objects) =>
                             objects'[k][f] = objects[k][f]]_vars

\* C25, amended: a link that pointed to a live object is unchanged, except
\* the next of an object whose location was NOTHING, which is made NOTHING;
\* a link to no live object is made NOTHING.
C25_RepairsKeepLiveLinksButNext ==
    [][(load_pc = "phase_1" /\ IsLegacy(dbio_input_version) /\ load_pc' # load_pc) =>
          /\ C25_LinksAreLive
          /\ \A k \in 1 .. Len(objects) :
                 objects[k] # NULL =>
                     \A f \in LinkFields4 :
                         objects'[k][f] =
                             IF f = "next" /\ objects[k].location = NOTHING THEN NOTHING
                             ELSE IF objects[k][f] \in Live4(objects) THEN objects[k][f]
                             ELSE NOTHING]_vars

\* Phase 1 has made an invalid location NOTHING and kept the next beside it,
\* a link to a live object.
C25_Witness ==
    /\ load_pc = "phase_2"
    /\ \E k \in 1 .. Len(objects) :
           /\ objects[k] # NULL
           /\ objects[k].location = NOTHING
           /\ objects[k].next \in Live4(objects)

\* C30: in exec_completed the terminating zero of each read is stored at an
\* index inside char buffer[BufSize], in 0 .. BufSize - 1, whatever read()
\* has returned.
C30_TerminatorInsideBuffer ==
    exec_ret.op \in {"exec_completed", "ended"} =>
        \A j \in 1 .. Len(exec_ret.zero_at) :
            exec_ret.zero_at[j] \in 0 .. BufSize - 1

----------------------------------------------------------------------------
(* Claims about phase 1 of ng_validate_hierarchies *)

\* The value v of a field with every number of no object of st taken away:
\* out of a list, the other entries staying in their order; a single object
\* made NOTHING.
WithoutInvalid(st, v) ==
    LET Valid(e) == e.v = NOTHING \/ dbpriv_find_object(st, e.v) # NULL
    IN  IF v.type = "TYPE_LIST" THEN List(SelectSeq(v.v, Valid))
        ELSE IF Valid(v) THEN v ELSE Obj(NOTHING)

\* C24: when phase 1 of the next-gen validator passes, no parents, children
\* or contents list and no single parents or location is left with a number
\* that is neither NOTHING nor an existing object: every invalid entry is
\* removed, wherever it sits and however many there are, and the valid
\* entries keep their order.
C24_Phase1RemovesInvalidIds ==
    [][(load_pc = "phase_1" /\ ~IsLegacy(dbio_input_version) /\ load_pc' = "phase_2") =>
          /\ Len(store') = Len(store)
          /\ \A k \in 1 .. Len(store) :
                 IF store[k] = NULL THEN store'[k] = NULL
                 ELSE \A f \in {"parents", "children", "location", "contents"} :
                          store'[k][f] = WithoutInvalid(store, store[k][f])]_vars

\* C21: bf_exec forks a child, adds a waiter and suspends the task only when
\* every check passes: the argument list is not empty and holds strings
\* only, the command does not start with ".." and does not contain "/.", the
\* file exists, the three pipes and the fork succeed.  Otherwise it returns
\* an error to the task (E_ARGS for an empty list; E_INVARG for an argument
\* that is no string, a bad path or a missing file; E_EXEC for a pipe or a
\* fork that failed), with no child, no waiter and the task not suspended.
C21_ExecOnlyWhenEveryCheckPasses ==
    [][Len(tasks') = Len(tasks) + 1 =>
          LET args == exec_ret'.args
              sys == exec_ret'.sys
              pack == exec_ret'.ret
              k == Len(tasks')
              cmd == args[1].v
              AllStrings == \A i \in 1 .. Len(args) : args[i].type = "TYPE_STR"
              GoodPath == /\ ~(Len(cmd) >= 2 /\ SubSeq(cmd, 1, 2) = <<".", ".">>)
                          /\ ~\E i \in 1 .. Len(cmd) - 1 : SubSeq(cmd, i, i + 1) = <<"/", ".">>
              ArgsPass == args # <<>> /\ AllStrings /\ GoodPath
              Passes == /\ ArgsPass
                        /\ \A c \in DOMAIN sys : sys[c] = "ok"
          IN  /\ exec_ret'.op = "bf_exec"
              /\ ~ArgsPass => \A c \in DOMAIN sys : sys[c] = "none"
              /\ Passes =>
                     /\ pack.kind = "BI_SUSPEND"
                     /\ tasks' = Append(tasks, [state |-> "suspended", p |-> tasks'[k].p,
                                                resumes |-> 0])
                     /\ tasks'[k].p \in Pids
                     /\ children[tasks'[k].p] = "free"
                     /\ children' = [children EXCEPT ![tasks'[k].p] = "exec"]
                     /\ Len(exec_waiters') = Len(exec_waiters) + 1
                     /\ SubSeq(exec_waiters', 1, Len(exec_waiters)) = exec_waiters
                     /\ exec_waiters'[Len(exec_waiters')].the_vm = k
                     /\ exec_waiters'[Len(exec_waiters')].p = tasks'[k].p
              /\ ~Passes =>
                     /\ pack.kind = "BI_RAISE"
                     /\ pack.code = IF args = <<>> THEN "E_ARGS"
                                    ELSE IF ~AllStrings \/ ~GoodPath \/ sys.stat = "failed"
                                    THEN "E_INVARG"
                                    ELSE "E_EXEC"
                     /\ tasks' = Append(tasks, [state |-> "raised", p |-> 0, resumes |-> 0])
                     /\ children' = children
                     /\ exec_waiters' = exec_waiters]_vars

\* One call of exec() has suspended its task; the next got through its
\* argument checks and found its file, and then fork() failed.
C21_Witness ==
    /\ exec_ret.op = "bf_exec"
    /\ exec_ret.ret.code = "E_EXEC"
    /\ exec_ret.sys.fork = "failed"
    /\ \E k \in 1 .. Len(tasks) : tasks[k].state = "suspended"
    /\ tasks[Len(tasks)].state = "raised"

----------------------------------------------------------------------------
(* Claims about the framing of the object blocks *)

\* The object blocks of a file, by the places of their first lines: "#n",
\* "#n recycled", or "#n" followed by other text.
HeadPlaces(text) ==
    {i \in 1 .. Len(text) : text[i].k \in {"#%d", "#%d recycled", "#%d recycle"}}

HeadPlace(text, k) ==
    CHOOSE p \in HeadPlaces(text) : Cardinality({q \in HeadPlaces(text) : q <= p}) = k

\* Each of the first nobjs blocks of the file is numbered by its place,
\* counted from 0, with " recycled" or nothing after the number.
Framed(text, nobjs) ==
    /\ Cardinality(HeadPlaces(text)) >= nobjs
    /\ \A k \in 1 .. nobjs :
          /\ text[HeadPlace(text, k)].v = k - 1
          /\ text[HeadPlace(text, k)].k \in {"#%d", "#%d recycled"}

\* A read of the objects that has the header it needs: read_db_file at its
\* first line, leaving for the validator or failing.
ReadsObjects ==
    /\ load_pc = "read_db_file"
    /\ ReadHeader(dbio).ok
    /\ load_pc' # load_pc

\* C26: the object readers accept the nobjs blocks of a file exactly when
\* block k, counted from 0, is numbered k and has " recycled" or nothing
\* after its number; the slots are then 0 .. nobjs - 1, slot k recycled if
\* block k says so and otherwise the object of block k with id k; any other
\* number or trailing text fails the load.  The writer's blocks are those of
\* 0 .. max_oid in ascending order, "#n recycled" for the recycled slots,
\* after a header count of max_oid + 1, and pass the readers' check.
C26_BlocksAreNumberedByPlace ==
    [][/\ ReadsObjects =>
            LET nobjs == ReadHeader(dbio).nobjs
                table == IF IsLegacy(ReadHeader(dbio).version) THEN objects' ELSE store'
            IN  /\ load_pc' = (IF Framed(dbio, nobjs) THEN "phase_1" ELSE "failed")
                /\ load_pc' = "phase_1" =>
                      /\ Len(table) = nobjs
                      /\ \A k \in 1 .. nobjs :
                            IF dbio[HeadPlace(dbio, k)].k = "#%d recycled"
                            THEN table[k] = NULL
                            ELSE /\ table[k] # NULL
                                 /\ table[k].id = k - 1
                                 /\ table[k].name = dbio[HeadPlace(dbio, k) + 1].v
       /\ load_pc = "write_db_file" /\ load_pc' # load_pc =>
            /\ ReadHeader(dbio').nobjs = Len(store)
            /\ Cardinality(HeadPlaces(dbio')) = Len(store)
            /\ \A k \in 1 .. Len(store) :
                  dbio'[HeadPlace(dbio', k)]
                      = Tok(IF store[k] = NULL THEN "#%d recycled" ELSE "#%d", k - 1)
            /\ Framed(dbio', Len(store))]_vars

\* A version 4 file of MaxObjs blocks has been read into the legacy table:
\* slot 0 recycled, slot 1 an object.
C26_Witness ==
    /\ load_pc = "phase_1"
    /\ IsLegacy(dbio_input_version)
    /\ store = <<>>
    /\ Len(objects) = MaxObjs
    /\ objects[1] = NULL
    /\ objects[2] # NULL
    /\ objects[2].id = 1

----------------------------------------------------------------------------
(* Claims about the verb programs of a file *)

\* The verbs of the table tbl that have a program, as pairs of the object and
\* the place of the verb among the verbdefs of that object, counted from 0.
Programmed(tbl) ==
    UNION {{<<oid, k>> : k \in {i \in 0 .. Len(tbl[oid + 1].verbdefs) - 1 :
                                    tbl[oid + 1].verbdefs[i + 1].program # <<>>}} :
           oid \in {x \in 0 .. Len(tbl) - 1 : tbl[x + 1] # NULL}}

\* The first lines "#oid:k" of the program blocks of a file, by their places.
ProgramPlaces(text) == {i \in 1 .. Len(text) : text[i].k = "#%d:%d"}

\* The block "#oid:k" names a valid object of tbl and one of its verbs.
NamesVerb(tbl, b) ==
    /\ b[1] \in 0 .. Len(tbl) - 1
    /\ tbl[b[1] + 1] # NULL
    /\ b[2] \in 0 .. Len(tbl[b[1] + 1].verbdefs) - 1

\* C27: write_db_file emits one block "#oid:k" for every verb with a program,
\* k its place among all verbdefs of the object counted from 0, followed by
\* that program, in ascending order of (oid, k), and the header's nprogs is
\* the number of blocks.  read_db_file binds the program of block "#oid:k"
\* to verb k of object oid and leaves every other verb as it was; it fails
\* exactly when some block names a recycled or out-of-range object or a k
\* that is negative or not below the number of its verbs.
C27_ProgramBlocksNameTheirVerb ==
    [][/\ load_pc = "write_db_file" /\ load_pc' # load_pc =>
            LET places == ProgramPlaces(dbio')
            IN  /\ {dbio'[i].v : i \in places} = Programmed(store)
                /\ Cardinality(places) = Cardinality(Programmed(store))
                /\ \A i \in places :
                      dbio'[i + 1]
                          = Tok("program", store[dbio'[i].v[1] + 1].verbdefs[dbio'[i].v[2] + 1].program)
                /\ \A i, j \in places :
                      i < j => \/ dbio'[i].v[1] < dbio'[j].v[1]
                               \/ /\ dbio'[i].v[1] = dbio'[j].v[1]
                                  /\ dbio'[i].v[2] < dbio'[j].v[2]
                /\ ReadHeader(dbio').nprogs = Cardinality(places)
       /\ load_pc = "programs" /\ load_pc' # load_pc =>
            LET legacy == IsLegacy(dbio_input_version)
                tbl == IF legacy THEN objects ELSE store
                after == IF legacy THEN objects' ELSE store'
                Last(b) == CHOOSE j \in 1 .. nprogs :
                               /\ dbio[2 * j - 1].v = b
                               /\ \A i \in j + 1 .. nprogs : dbio[2 * i - 1].v # b
            IN  /\ \A j \in 1 .. nprogs : dbio[2 * j - 1].k = "#%d:%d"
                /\ load_pc' = (IF \A j \in 1 .. nprogs : NamesVerb(tbl, dbio[2 * j - 1].v)
                               THEN "queues" ELSE "failed")
                /\ load_pc' = "queues" =>
                      /\ Len(after) = Len(tbl)
                      /\ \A k \in 1 .. Len(tbl) :
                            IF tbl[k] = NULL THEN after[k] = NULL
                            ELSE /\ after[k] # NULL
                                 /\ [after[k] EXCEPT !.verbdefs = <<>>]
                                        = [tbl[k] EXCEPT !.verbdefs = <<>>]
                                 /\ Len(after[k].verbdefs) = Len(tbl[k].verbdefs)
                                 /\ \A v \in 1 .. Len(tbl[k].verbdefs) :
                                       after[k].verbdefs[v]
                                           = [tbl[k].verbdefs[v] EXCEPT !.program =
                                                 IF \E j \in 1 .. nprogs :
                                                        dbio[2 * j - 1].v = <<k - 1, v - 1>>
                                                 THEN dbio[2 * Last(<<k - 1, v - 1>>)].v
                                                 ELSE @]]_vars

\* A version 4 file whose only program block is "#2:0" has been read: the
\* first of the two verbs of #2 has the program, the second has none.
C27_Witness ==
    /\ load_pc = "queues"
    /\ nprogs = 1
    /\ IsLegacy(dbio_input_version)
    /\ Len(objects) = MaxObjs
    /\ objects[3] # NULL
    /\ objects[3].verbdefs[1].program = <<"program", 1>>
    /\ objects[3].verbdefs[2].program = <<>>

----------------------------------------------------------------------------
(* Claims about the order of the steps of read_db_file *)

\* The version of a file: that of its version line, DBV_Prehistory without.
VersionOf(text) ==
    IF text # <<>> /\ text[1].k = "version" THEN text[1].v ELSE DBV_Prehistory

\* C28: read_db_file takes the version from the file's first line, a file
\* without one being of DBV_Prehistory, and reads the objects with the v4
\* reader into the legacy table if the version is below DBV_NextGen, with
\* the next-generation reader into the store if not; the validator of that
\* version follows when all nobjs objects are read, the verb programs when it
\* has passed, then the task queue and the connections, and last, for a
\* version below DBV_NextGen only, the migrator, which alone fills the store
\* of such a load.  A load of DBV_NextGen never touches the legacy table.  A
\* step that fails ends the load: nothing is done after it, nor after the
\* load has returned.
C28_StepsInOrder ==
    [][load_pc # "write_db_file" =>
          LET legacy == IsLegacy(dbio_input_version')
              Then(next) == load_pc' \in {next, "failed"}
          IN  /\ load_pc \notin {"failed", "crashed", "loaded"}
              /\ IF load_pc = "read_db_file"
                 THEN /\ dbio_input_version' = VersionOf(dbio)
                      /\ Then("phase_1")
                      /\ load_pc' = "phase_1" =>
                            Len(IF legacy THEN objects' ELSE store') = ReadHeader(dbio).nobjs
                 ELSE dbio_input_version' = dbio_input_version
              /\ IF legacy
                 THEN store' # store => load_pc = "upgrade" /\ load_pc' = "loaded"
                 ELSE objects' = objects /\ objects = <<>> /\ load_pc # "upgrade"
              /\ load_pc = "phase_1" => Then("phase_2") \/ load_pc' = "crashed"
              /\ load_pc = "phase_2" => Then("phase_3")
              /\ load_pc = "phase_3" => Then("programs") \/ load_pc' = "crashed"
              /\ load_pc = "programs" => Then("queues")
              /\ load_pc = "queues" => Then(IF legacy THEN "upgrade" ELSE "loaded")
              /\ load_pc = "upgrade" => Then("loaded")
              /\ dbio' # dbio => load_pc \in {"read_db_file", "programs"}]_vars

\* A file without a version line has been loaded: it went through the legacy
\* table, which the migrator has emptied into the store.
C28_Witness ==
    /\ load_pc = "loaded"
    /\ dbio_input_version = DBV_Prehistory
    /\ objects = <<>>
    /\ Len(store) = MaxObjs
    /\ store[2] # NULL

----------------------------------------------------------------------------
(* Claims about db_disk_size *)

\* The file the server was started on, input_db_name: the dump of the store
\* the server began with.
InputFile == [exists |-> TRUE, data |-> Serialize(<<"live">>), synced |-> TRUE]

\* st.st_size of a file that stat() finds.
StSize(file) == Len(file.data)

\* db_disk_size: -1 if (dump_generation == 0 || stat(dump_db_name) < 0) and
\* stat(input_db_name) < 0; otherwise the st_size of the stat() that
\* succeeded last.
db_disk_size(input) ==
    IF (dump_generation = 0 \/ ~DFile.exists) /\ ~input.exists THEN 0 - 1
    ELSE IF dump_generation = 0 \/ ~DFile.exists THEN StSize(input)
    ELSE StSize(DFile)

\* A dump has succeeded in a server that is still there to ask: one of its
\* checkpointers has left with status 0.
DumpSucceeded == \E c \in Children : proc[c].pc = "exited" /\ proc[c].status = 0

\* C22: asked of the idle server, db_disk_size returns the size of D once a
\* dump has succeeded and the size of the input file as long as none has,
\* whenever that file is there, and -1 only when it is not there.
C22_DiskSizeOfLatestImage ==
    proc[Server].pc = "idle" =>
        \A input \in {NoFile, InputFile} :
            LET file == IF DumpSucceeded THEN DFile ELSE input
            IN  /\ file.exists => db_disk_size(input) = StSize(file)
                /\ db_disk_size(input) = 0 - 1 => ~file.exists

----------------------------------------------------------------------------
(* Claims about a checkpointer that runs beside a later dump *)

\* The file holds a dump from its header to its trailer.
CompleteSnapshot(file) ==
    /\ file.exists
    /\ \E mem \in {<<"live">>, <<"recycled">>} : file.data = Serialize(mem)

\* C29: whatever a checkpointer and the dumps the server starts after it do
\* in between each other's steps, once a dump has succeeded some file on
\* disk holds a complete snapshot, and a checkpointer that exits 0 leaves
\* D on disk with a complete snapshot in it.
C29_SnapshotSurvivesLaterDumps ==
    [][/\ DumpSucceeded' => \E name \in FileNames : CompleteSnapshot(disk'[name])
       /\ \A c \in Children :
             Exits(c) /\ proc'[c].status = 0 => CompleteSnapshot(disk'[dump_db_name])]_vars

============================================================================
